---- MODULE Spec2Model ----
(***************************************************************************)
(* The RPC session layer of imsg-rpc: the line framer (rpc.rs: identifier  *)
(* generator, writer loop, reader loop) and the session coordinator of the *)
(* two client shells (tui/src/main.rs, gui/src/main.rs).                   *)
(***************************************************************************)
EXTENDS Integers, Sequences, FiniteSets, TLC

VARIABLES
    shell,      \* "tui" or "gui": which client shell runs the coordinator
    COUNTER,    \* rpc.rs next_id: static COUNTER (AtomicU64), process-wide
    returned,   \* history: every identifier send_request has returned, in order
    handled,    \* history: identifiers whose intent handler was invoked, in order
    client,     \* gui: App.client is Some; tui: always TRUE (main exits otherwise)
    tx,         \* RpcClient.sender queue: requests waiting for the writer loop
    wire,       \* lines the writer loop has written on the current connection
    writer,     \* writer loop of the current client: "running" / "stopped"
    reader,     \* reader loop of the current client: "reading" / "failing" / "closing" / "done"
    events,     \* RpcClient.receiver: the event channel of the current client
    app,        \* the coordinator's App struct
    co,         \* coordinator position: "idle" between ticks, "drain" in the
                \* drain, "show" inside Notification::show(), "connecting"
                \* inside config.connect() of handle_reconnect, "registering"
                \* between send_request and pending.insert, "quit" once
                \* run_app has left its loop
    batch,      \* gui drain_events: the Vec of events collected by try_recv
    now,        \* Instant::now(), in seconds
    nlines,     \* lines the backend has sent so far, an end of stream counting
                \* as one (all connections)
    nuser,      \* user-initiated dispatches so far
    nconn,      \* successful reconnects so far
    last,       \* history: the event the current drain handled last (its type,
                \* id, method, the code member of its payload, and whether its
                \* id was pending)
    dropped,    \* history: the watch fields, and the connection's number, when
                \* the latest connection to close had its first Closed handled
    first_id,   \* history: how many identifiers had been returned when the
                \* current client was created
    old         \* the threads of the clients dropped so far that still run:
                \* writer loops, reader threads past their loop, and reader
                \* loops still waiting on their stream

vars == <<shell, COUNTER, returned, handled, client, tx, wire, writer, reader,
          events, app, co, batch, now, nlines, nuser, nconn, last, dropped, first_id, old>>

----------------------------------------------------------------------------
(* Bounds of the model.                                                    *)
MaxLines == 2
MaxUserCalls == 1
MaxFails == 2
MaxWatchLines == 3
MaxToggles == 2
MaxBackoffFails == 10
MaxWire == 4
MaxIds == 9

----------------------------------------------------------------------------
(* Option<T>: None is the empty sequence, Some(x) the one-element one.     *)
None == <<>>
Some(x) == <<x>>
IsSome(o) == o /= <<>>
Unwrap(o) == o[1]

Min(a, b) == IF a < b THEN a ELSE b

RECURSIVE Pow2(_)
Pow2(n) == IF n = 0 THEN 1 ELSE 2 * Pow2(n - 1)

(* u64::to_string: the decimal digits, most significant first.             *)
RECURSIVE to_string(_)
to_string(n) == IF n < 10 THEN <<n>> ELSE to_string(n \div 10) \o <<n % 10>>

(* next_id: COUNTER.fetch_add(1, Relaxed) is one atomic read-modify-write; *)
(* it returns the previous value and stores the successor.                 *)
(* faulty variant: the counter is read but not advanced                    *)
next_id_counter_stuck(counter) == counter

next_id_counter(counter) == counter + 1
next_id(counter) == to_string(counter)

----------------------------------------------------------------------------
(* serde_json::Value, reduced to the members the clients read.            *)
Json(chats, messages, subscription, contacts, message, code) ==
    [chats |-> chats, messages |-> messages, subscription |-> subscription,
     contacts |-> contacts, message |-> message, code |-> code, data |-> None,
     matches |-> None]

(* A char is its Unicode scalar value, and a String the user types or     *)
(* the backend sends as a handle, an identifier or a name is the sequence  *)
(* of its chars: <<97>> is "a", <<43, 49>> is "+1", <<>> is "".            *)
ChatA == [id |-> 1, identifier |-> <<97>>, participants |-> <<>>]
ChatB == [id |-> 2, identifier |-> <<>>, participants |-> << <<98>> >>]

(* parse_message: the Message of a JSON object with the given chat_id and  *)
(* sender and no other member (guid and text are "", is_from_me is false)  *)
Msg(c, s) ==
    [chat_id |-> c, sender |-> s, attachments |-> <<>>, guid |-> "", text |-> <<>>,
     is_from_me |-> FALSE]

V0 == Json(None, None, None, None, None, 0)
V1 == Json(Some(<<ChatA, ChatB>>), Some(<<Msg(1, <<97>>)>>), Some("s1"),
           Some(<< <<97>> >>), Some([Msg(1, <<97>>) EXCEPT !.is_from_me = TRUE]), 0)
V2 == Json(Some(<<ChatB>>), Some(<<Msg(2, <<98>>)>>), None, None,
           Some(Msg(2, <<98>>)), 7)
V3 == Json(None, None, None, None, Some(Msg(1, <<99>>)), 3)
Values == {V0, V1, V2}

(* A JSON member that may or may not be a string (Value::as_str).          *)
JStr(s) == [is_str |-> TRUE, s |-> s]
JNum(s) == [is_str |-> FALSE, s |-> s]
as_str(member) ==
    IF IsSome(member) /\ Unwrap(member).is_str THEN Some(Unwrap(member).s) ELSE None

(* One line of the inbound stream. text is "json" for a line that parses,  *)
(* "invalid" for one that does not, "blank" for an empty or whitespace     *)
(* line and "ioerr" for a read that returns Err.                           *)
Line(text, method, params, id, result, error) ==
    [text |-> text, method |-> method, params |-> params, id |-> id,
     result |-> result, error |-> error]

BlankLine == Line("blank", None, None, None, None, None)
InvalidLine == Line("invalid", None, None, None, None, None)
IoErrLine == Line("ioerr", None, None, None, None, None)
ResponseLine(id, v) == Line("json", None, None, Some(JStr(id)), Some(v), None)
TiedErrorLine(id, v) == Line("json", None, None, Some(JStr(id)), None, Some(v))
UntiedErrorLine(v) == Line("json", None, None, None, None, Some(v))
NotificationLine(m, v) == Line("json", Some(JStr(m)), Some(v), None, None, None)
BothLine(m, p, id, v) == Line("json", Some(JStr(m)), Some(p), Some(JStr(id)), Some(v), None)
NumericIdLine(id, v) == Line("json", None, None, Some(JNum(id)), Some(v), None)
OtherLine == Line("json", None, None, None, None, None)

(* rpc.rs RpcEvent                                                         *)
Response(id, result) ==
    [type |-> "Response", id |-> Some(id), method |-> "", payload |-> result, message |-> ""]
Error(id, error) ==
    [type |-> "Error", id |-> id, method |-> "", payload |-> error, message |-> ""]
Notification(method, params) ==
    [type |-> "Notification", id |-> None, method |-> method, payload |-> params, message |-> ""]
Closed(message) ==
    [type |-> "Closed", id |-> None, method |-> "", payload |-> V0, message |-> message]

ParseError == "json parse error"
StreamClosed == "rpc stream closed"

(* reader_thread, the body of the for loop for one item of                 *)
(* buffered.lines(): the events sent and whether the loop breaks.          *)
(* faulty variant: id+result is tested before method+params               *)
reader_line_response_first(line) ==
    IF line.text \in {"ioerr", "blank"} THEN [emit |-> <<>>, stop |-> FALSE]
    ELSE IF line.text = "invalid" THEN [emit |-> <<Closed(ParseError)>>, stop |-> TRUE]
    ELSE LET method == as_str(line.method)
             id == as_str(line.id)
         IN  IF IsSome(id) /\ IsSome(line.result)
             THEN [emit |-> <<Response(Unwrap(id), Unwrap(line.result))>>, stop |-> FALSE]
             ELSE IF IsSome(method) /\ IsSome(line.params)
             THEN [emit |-> <<Notification(Unwrap(method), Unwrap(line.params))>>,
                   stop |-> FALSE]
             ELSE IF IsSome(id) /\ IsSome(line.error)
             THEN [emit |-> <<Error(id, Unwrap(line.error))>>, stop |-> FALSE]
             ELSE [emit |-> <<>>, stop |-> FALSE]

(* faulty variant: the parse-error arm reports but does not break          *)
reader_line_no_break(line) ==
    IF line.text = "invalid" THEN [emit |-> <<Closed(ParseError)>>, stop |-> FALSE]
    ELSE [emit |-> <<>>, stop |-> FALSE]
reader_line(line) ==
    IF line.text = "ioerr" THEN [emit |-> <<>>, stop |-> FALSE]
    ELSE IF line.text = "blank" THEN [emit |-> <<>>, stop |-> FALSE]
    ELSE IF line.text = "invalid" THEN [emit |-> <<Closed(ParseError)>>, stop |-> TRUE]
    ELSE LET method == as_str(line.method)
             id == as_str(line.id)
         IN  IF IsSome(method) /\ IsSome(line.params)
             THEN [emit |-> <<Notification(Unwrap(method), Unwrap(line.params))>>,
                   stop |-> FALSE]
             ELSE IF IsSome(id) /\ IsSome(line.result)
             THEN [emit |-> <<Response(Unwrap(id), Unwrap(line.result))>>, stop |-> FALSE]
             ELSE IF IsSome(id) /\ IsSome(line.error)
             THEN [emit |-> <<Error(id, Unwrap(line.error))>>, stop |-> FALSE]
             ELSE [emit |-> <<>>, stop |-> FALSE]

(* faulty variant: the loop is left without a word                         *)
reader_exit_silent == <<>>

(* reader_thread after the loop: the trailing Closed.                      *)
reader_exit == <<Closed(StreamClosed)>>

----------------------------------------------------------------------------
(* The coordinator.  Its operations act on a record w holding the App      *)
(* struct (w.app), the client handle they are given (w.client, w.tx,       *)
(* w.writer), the process-wide COUNTER (w.counter) and the histories.      *)

St(text, code, reason) == [text |-> text, code |-> code, reason |-> reason]

Params(chat_id, subscription, handles) ==
    [chat_id |-> chat_id, subscription |-> subscription, handles |-> handles,
     to |-> None, text |-> None, guid |-> None, reaction |-> None, query |-> None]

Request(id, method, params) == [id |-> id, method |-> method, params |-> params]

(* Vec::get with a 0-based index                                           *)
get(list, index) == IF index + 1 \in DOMAIN list THEN Some(list[index + 1]) ELSE None

(* HashMap::insert / remove on the pending map                             *)
insert(map, key, value) == (key :> value) @@ map
remove(map, key) == [k \in DOMAIN map \ {key} |-> map[k]]

RECURSIVE filter_unknown(_, _)
filter_unknown(handles, contacts) ==
    IF handles = <<>> THEN <<>>
    ELSE (IF Head(handles) /= <<>> /\ Head(handles) \notin contacts
          THEN <<Head(handles)>> ELSE <<>>) \o filter_unknown(Tail(handles), contacts)

RECURSIVE senders(_)
senders(messages) ==
    IF messages = <<>> THEN <<>> ELSE <<Head(messages).sender>> \o senders(Tail(messages))

RECURSIVE chat_handles(_)
chat_handles(chats) ==
    IF chats = <<>> THEN <<>>
    ELSE (IF Head(chats).identifier /= <<>> THEN <<Head(chats).identifier>> ELSE <<>>)
         \o Head(chats).participants \o chat_handles(Tail(chats))

Range(seq) == {seq[i] : i \in DOMAIN seq}

(* char::is_whitespace: the code points with the property White_Space      *)
Whitespace ==
    (9..13) \cup {32, 133, 160, 5760} \cup (8192..8202)
        \cup {8232, 8233, 8239, 8287, 12288}

(* char::is_ascii_digit                                                    *)
Digits == 48..57

(* char::len_utf8                                                          *)
len_utf8(c) == IF c < 128 THEN 1 ELSE IF c < 2048 THEN 2 ELSE IF c < 65536 THEN 3 ELSE 4

(* String::len: the length in bytes                                        *)
RECURSIVE len(_)
len(s) == IF s = <<>> THEN 0 ELSE len_utf8(Head(s)) + len(Tail(s))

RECURSIVE trim_start(_)
trim_start(s) ==
    IF s /= <<>> /\ Head(s) \in Whitespace THEN trim_start(Tail(s)) ELSE s

RECURSIVE trim_end(_)
trim_end(s) ==
    IF s /= <<>> /\ s[Len(s)] \in Whitespace THEN trim_end(SubSeq(s, 1, Len(s) - 1)) ELSE s

(* str::trim                                                               *)
trim(s) == trim_end(trim_start(s))

(* String::pop                                                             *)
pop(s) == IF s = <<>> THEN s ELSE SubSeq(s, 1, Len(s) - 1)

(* fn looks_like_handle: 64 is '@', and 43, 40, 41, 45, 32 are "+()- "     *)
looks_like_handle(value) ==
    LET trimmed == trim(value)
    IN  IF trimmed = <<>> THEN FALSE
        ELSE IF 64 \in Range(trimmed) THEN TRUE
        ELSE \A i \in DOMAIN trimmed : trimmed[i] \in Digits \cup {43, 40, 41, 45, 32}

(* fn extract_urls: a message text is the sequence of its words, each a    *)
(* link or not                                                             *)
extract_urls(text) ==
    LET links == SelectSeq(text, LAMBDA word : word.url)
    IN  [i \in DOMAIN links |-> links[i].s]

(* App::new                                                                *)
new_app(notify) ==
    [chats |-> <<>>, messages |-> <<>>, selected |-> 0, status |-> St("ready", 0, ""),
     watch_subscription |-> None, watch_chat_id |-> None,
     pending |-> <<>>, contacts |-> {},
     reconnect_at |-> None, reconnect_attempts |-> 0,
     attachment_cache |-> <<>>, pending_attachments |-> <<>>,
     input |-> <<>>, input_mode |-> "Normal", reaction_target |-> None,
     contact_query |-> None, focus |-> "Chats", message_index |-> 0,
     compose_to |-> <<>>, compose_body |-> <<>>, compose_field |-> "To",
     recipient_history |-> <<>>, history_index |-> None, contact_suggestions |-> <<>>,
     selected_message |-> None, notify |-> notify]

(* App::new (gui): input, compose_body and recipient_history stand for     *)
(* its reaction_input, compose_content and recipient_history               *)
gui_new_app(notify) == [new_app(notify) EXCEPT !.input_mode = "None"]

(* RpcClient::send_request: allocate the identifier, enqueue the line for  *)
(* the writer loop (the send fails silently once the writer loop has       *)
(* dropped its receiver) and return the identifier.                        *)
(* faulty variant: the line is never handed to the writer loop             *)
send_request_no_enqueue(w, method, params) ==
    [w EXCEPT !.counter = next_id_counter(@),
              !.returned = Append(@, next_id(w.counter))]

send_request(w, method, params) ==
    [w EXCEPT !.counter = next_id_counter(@),
              !.returned = Append(@, next_id(w.counter)),
              !.tx = IF w.writer = "running"
                     THEN Append(@, Request(next_id(w.counter), method, params))
                     ELSE @]

(* faulty variant: the request is sent whether or not a client is held      *)
dispatch_unguarded(w, method, params, intent, status) ==
    LET id == next_id(w.counter)
        s == send_request(w, method, params)
    IN  [s EXCEPT !.app.pending = insert(@, id, intent),
                  !.app.status = IF status = None THEN @ ELSE Unwrap(status)]

(* request_*: send_request, then pending.insert(id, intent) and the status *)
dispatch(w, method, params, intent, status) ==
    IF ~w.client THEN w
    ELSE LET id == next_id(w.counter)
             s == send_request(w, method, params)
         IN  [s EXCEPT !.app.pending = insert(@, id, intent),
                       !.app.status = IF status = None THEN @ ELSE Unwrap(status)]

request_chats(w) ==
    dispatch(w, "chats.list", Params(None, None, <<>>), "Chats",
             Some(St("loading chats...", 0, "")))

request_history(w, chat_id) ==
    dispatch(w, "messages.history", Params(Some(chat_id), None, <<>>), "History",
             Some(St("loading history for chat", chat_id, "")))

request_contact_resolve(w, handles) ==
    dispatch(w, "contacts.resolve", Params(None, None, handles), "ResolveContacts", None)

request_watch_subscribe(w, chat_id) ==
    dispatch(w, "watch.subscribe", Params(Some(chat_id), None, <<>>), "WatchSubscribe",
             Some(St("subscribing...", 0, "")))

request_send_chat(w, chat_id, text) ==
    dispatch(w, "send",
             [Params(Some(chat_id), None, <<>>) EXCEPT !.text = Some(text)],
             "Send", Some(St("sending...", 0, "")))

request_send_to(w, to, text) ==
    dispatch(w, "send",
             [Params(None, None, <<>>) EXCEPT !.to = Some(to), !.text = Some(text)],
             "Send", Some(St("sending...", 0, "")))

request_reaction(w, guid, reaction) ==
    dispatch(w, "reactions.send",
             [Params(None, None, <<>>) EXCEPT !.guid = Some(guid),
                                              !.reaction = Some(reaction)],
             "Reaction", Some(St("sending reaction...", 0, "")))

request_contact_search(w, query) ==
    dispatch(w, "contacts.search",
             [Params(None, None, <<>>) EXCEPT !.query = Some(query)],
             "ContactSearch", None)

toggle_watch(w, chat_id) ==
    IF ~w.client THEN w
    ELSE IF IsSome(w.app.watch_subscription)
    THEN LET d == dispatch(w, "watch.unsubscribe",
                           Params(None, w.app.watch_subscription, <<>>),
                           "WatchUnsubscribe", Some(St("unsubscribing...", 0, "")))
         IN  [d EXCEPT !.app.watch_chat_id = None]
    ELSE request_watch_subscribe([w EXCEPT !.app.watch_chat_id = Some(chat_id)], chat_id)

(* fn reconnect_delay(attempt), in seconds (tui; the gui's is the same     *)
(* without the saturating_sub(0))                                          *)
(* faulty variant: the 30 second cap is missing                           *)
reconnect_delay_uncapped(attempt) == 2 * Pow2(Min(attempt, 4))

reconnect_delay(attempt) == Min(2 * Pow2(Min(attempt, 4)), 30)

(* schedule_reconnect: a no-op while an attempt is scheduled               *)
(* faulty variants: one reschedules over a scheduled attempt, the other    *)
(* never schedules                                                         *)
schedule_reconnect_unconditional(a, t) ==
    [a EXCEPT !.reconnect_attempts = @ + 1,
              !.reconnect_at = Some(t + reconnect_delay(a.reconnect_attempts))]

schedule_reconnect_never(a, t) == a

(* faulty variant: the attempt counter is left alone                       *)
schedule_reconnect_no_count(a, t) ==
    IF IsSome(a.reconnect_at) THEN a
    ELSE [a EXCEPT !.reconnect_at = Some(t + reconnect_delay(a.reconnect_attempts))]

schedule_reconnect(a, t) ==
    IF IsSome(a.reconnect_at) THEN a
    ELSE [a EXCEPT !.reconnect_attempts = @ + 1,
                   !.reconnect_at = Some(t + reconnect_delay(a.reconnect_attempts))]

(* struct Attachment (gui).  A path and a file name are what comes before  *)
(* the extension and the extension, if there is one: File("a", Some("png")) *)
(* is "a.png", File("a", Some("")) is "a." and File("a", None) is "a".     *)
(* A MIME type is a type and a subtype.                                    *)
Attachment(original_path, filename, mime_type) ==
    [original_path |-> original_path, filename |-> filename, mime_type |-> mime_type]

File(stem, ext) == [stem |-> stem, ext |-> ext]

(* the empty string, as a path or a file name                              *)
NoFile == File("", None)

(* Path::extension: what follows the last dot of the file name, be it      *)
(* empty; None for a name without a dot                                    *)
extension(file) == file.ext

(* the files Path::exists finds on this machine                            *)
OnDisk == {File("/local/c", Some("png"))}

(* fn attachment_ext: the extension of the file name, else of the path,    *)
(* else "bin"                                                              *)
attachment_ext(path, filename) ==
    LET ext == IF IsSome(extension(filename)) THEN extension(filename)
               ELSE extension(path)
    IN  IF IsSome(ext) THEN Unwrap(ext) ELSE "bin"

(* fn attachment_is_image                                                  *)
attachment_is_image(attachment) ==
    \/ attachment.mime_type.type = "image"
    \/ attachment_ext(attachment.original_path, attachment.filename)
          \in {"png", "jpg", "jpeg", "gif", "heic", "heif", "webp"}

(* fn attachment_key: a hash of the path and the file name                 *)
attachment_key(path, filename) == <<path, filename>>

(* App::request_attachment_fetch (gui)                                     *)
request_attachment_fetch(w, attachment) ==
    LET key == attachment_key(attachment.original_path, attachment.filename)
    IN  IF ~attachment_is_image(attachment) THEN w
        ELSE IF \/ key \in DOMAIN w.app.attachment_cache
                \/ \E id \in DOMAIN w.app.pending_attachments :
                      w.app.pending_attachments[id].key = key
        THEN w
        ELSE IF attachment.original_path /= NoFile /\ attachment.original_path \in OnDisk
        THEN [w EXCEPT !.app.attachment_cache = insert(@, key, <<attachment.original_path>>)]
        ELSE IF attachment.original_path = NoFile THEN w
        ELSE IF ~w.client THEN w
        ELSE LET id == next_id(w.counter)
                 d == dispatch(w, "attachments.fetch", Params(None, None, <<>>),
                               "AttachmentFetch", None)
             IN  [d EXCEPT !.app.pending_attachments =
                               insert(@, id, [key |-> key, filename |-> attachment.filename])]

RECURSIVE fetch_attachments(_, _)
fetch_attachments(w, attachments) ==
    IF attachments = <<>> THEN w
    ELSE fetch_attachments(request_attachment_fetch(w, Head(attachments)), Tail(attachments))

(* App::fetch_attachments_for_message (gui)                                *)
fetch_attachments_for_message(w, message) == fetch_attachments(w, message.attachments)

RECURSIVE fetch_attachments_for_messages(_, _)
fetch_attachments_for_messages(w, messages) ==
    IF messages = <<>> THEN w
    ELSE fetch_attachments_for_messages(fetch_attachments_for_message(w, Head(messages)),
                                        Tail(messages))

(* BASE64.decode succeeds                                                  *)
base64_ok(data) == data = "aGk="

(* what the attachment cache directory is when a reply is handled: the     *)
(* file of the reply's key is there or not (the directory outlives the     *)
(* program), and create_dir_all and write succeed or not                   *)
FileSystems == [exists : BOOLEAN, writable : BOOLEAN]

(* the matches of a contacts.search result: the handles that are strings,  *)
(* each with the name of its entry                                         *)
RECURSIVE entry_handles(_, _)
entry_handles(name, list) ==
    IF list = <<>> THEN <<>>
    ELSE (IF IsSome(as_str(Some(Head(list))))
          THEN <<[name |-> name, handle |-> Unwrap(as_str(Some(Head(list))))]>>
          ELSE <<>>) \o entry_handles(name, Tail(list))

RECURSIVE match_handles(_)
match_handles(matches) ==
    IF matches = <<>> THEN <<>>
    ELSE LET entry == Head(matches)
             name == IF IsSome(as_str(entry.name)) THEN Unwrap(as_str(entry.name)) ELSE <<>>
         IN  (IF IsSome(entry.handles) THEN entry_handles(name, Unwrap(entry.handles))
              ELSE <<>>) \o match_handles(Tail(matches))

(* the label and the handle of one suggestion: the label is the handle,    *)
(* or format!("{name} <{value}>")                                          *)
suggestion(found) ==
    [label |-> IF found.name = <<>> THEN found.handle
               ELSE found.name \o <<32, 60>> \o found.handle \o <<62>>,
     handle |-> found.handle]

(* handle_response (tui)                                                   *)
handle_response(w, pending, result, request_id) ==
    LET h == [w EXCEPT !.handled = Append(@, request_id)]
    IN  CASE pending = "Chats" ->
               LET chats == IF IsSome(result.chats) THEN Unwrap(result.chats) ELSE <<>>
               IN  [h EXCEPT !.app.chats = chats,
                             !.app.selected = IF @ >= Len(chats) THEN 0 ELSE @,
                             !.app.status = St("chats loaded", 0, "")]
          [] pending = "History" ->
               LET messages == IF IsSome(result.messages) THEN Unwrap(result.messages)
                               ELSE <<>>
                   handles == filter_unknown(senders(messages), h.app.contacts)
                   m == [h EXCEPT !.app.messages = messages,
                                  !.app.message_index = 0,
                                  !.app.status = St("history loaded", 0, ""),
                                  !.app.contact_suggestions = <<>>]
               IN  IF handles /= <<>> THEN request_contact_resolve(m, handles) ELSE m
          [] pending = "WatchSubscribe" ->
               IF IsSome(result.subscription)
               THEN [h EXCEPT !.app.watch_subscription = result.subscription,
                              !.app.status = St("watch subscribed", 0, "")]
               ELSE h
          [] pending = "WatchUnsubscribe" ->
               [h EXCEPT !.app.watch_subscription = None,
                         !.app.watch_chat_id = None,
                         !.app.status = St("watch unsubscribed", 0, "")]
          [] pending = "Send" -> [h EXCEPT !.app.status = St("sent", 0, "")]
          [] pending = "ResolveContacts" ->
               [h EXCEPT !.app.contacts =
                   @ \cup (IF IsSome(result.contacts) THEN Range(Unwrap(result.contacts))
                           ELSE {})]
          [] pending = "ContactSearch" ->
               LET found == match_handles(IF IsSome(result.matches)
                                          THEN Unwrap(result.matches) ELSE <<>>)
               IN  [h EXCEPT !.app.contact_suggestions =
                                 [i \in DOMAIN found |-> suggestion(found[i])],
                             !.app.status = IF found = <<>>
                                            THEN St("no contact matches; enter handle", 0, "")
                                            ELSE @,
                             !.app.contact_query = None]
          [] pending = "Reaction" -> [h EXCEPT !.app.status = St("reaction sent", 0, "")]

(* App::record_recipient (gui) / record_recipient (tui, which also resets  *)
(* history_index, a field the gui lacks)                                   *)
record_recipient(w, handle) ==
    LET trimmed == trim(handle)
    IN  IF trimmed = <<>> THEN w
        ELSE [w EXCEPT !.app.recipient_history =
                           <<trimmed>> \o SelectSeq(@, LAMBDA item : item /= trimmed),
                       !.app.history_index = None]

(* App::handle_response (gui): as the tui's, except that a chat list also  *)
(* loads the selected chat's history and resolves the chats' handles       *)
gui_handle_response(w, pending, result, request_id) ==
    IF pending = "Chats"
    THEN LET c == handle_response(w, pending, result, request_id)
             chat == get(c.app.chats, c.app.selected)
             r == IF IsSome(chat) THEN request_history(c, Unwrap(chat).id) ELSE c
             handles == filter_unknown(chat_handles(r.app.chats), r.app.contacts)
         IN  IF handles /= <<>> THEN request_contact_resolve(r, handles) ELSE r
    ELSE IF pending = "History"
    THEN LET h == [w EXCEPT !.handled = Append(@, request_id)]
             messages == IF IsSome(result.messages) THEN Unwrap(result.messages)
                         ELSE <<>>
             m == [h EXCEPT !.app.messages = messages,
                            !.app.selected_message = None,
                            !.app.status = St("history loaded", 0, "")]
             f == fetch_attachments_for_messages(m, messages)
             handles == filter_unknown(senders(messages), f.app.contacts)
         IN  IF handles /= <<>> THEN request_contact_resolve(f, handles) ELSE f
    ELSE IF pending = "AttachmentFetch"
    THEN LET h == [w EXCEPT !.handled = Append(@, request_id)]
         IN  IF request_id \in DOMAIN h.app.pending_attachments
             THEN LET entry == h.app.pending_attachments[request_id]
                      r == [h EXCEPT !.app.pending_attachments = remove(@, request_id)]
                      data == as_str(result.data)
                      path == <<"attachment_dir", entry.key,
                                attachment_ext(NoFile, entry.filename)>>
                      cached == [r EXCEPT !.app.attachment_cache = insert(@, entry.key, path)]
                  IN  IF ~IsSome(data) THEN r
                      ELSE IF ~w.fs.exists
                      THEN IF base64_ok(Unwrap(data)) /\ w.fs.writable THEN cached ELSE r
                      ELSE cached
             ELSE h
    ELSE IF pending = "ContactSearch"
    THEN LET h == [w EXCEPT !.handled = Append(@, request_id)]
             found == match_handles(IF IsSome(result.matches)
                                    THEN Unwrap(result.matches) ELSE <<>>)
             r == IF Len(found) = 1
                  THEN LET c == [h EXCEPT !.app.compose_to = found[1].handle]
                           body == trim(c.app.compose_body)
                       IN  IF body /= <<>> /\ IsSome(c.app.contact_query)
                           THEN LET target == c.app.compose_to
                                    s == record_recipient(request_send_to(c, target, body),
                                                          target)
                                IN  [s EXCEPT !.app.compose_body = <<>>,
                                              !.app.status = St("sent", 0, "")]
                           ELSE [c EXCEPT !.app.status = St("contact resolved", 0, "")]
                  ELSE IF found = <<>>
                  THEN [h EXCEPT !.app.status =
                                     St("no contact matches; enter handle", 0, "")]
                  ELSE [h EXCEPT !.app.status =
                                     St("multiple matches: {labels}", Len(found), "")]
         IN  [r EXCEPT !.app.contact_query = None]
    ELSE handle_response(w, pending, result, request_id)

(* handle_rpc_error (tui)                                                  *)
handle_rpc_error(w, pending, error, request_id) ==
    LET h == [w EXCEPT !.handled = Append(@, request_id)]
    IN  IF pending = "ResolveContacts"
        THEN [h EXCEPT !.app.status = St("contacts unavailable; names disabled", 0, "")]
        ELSE IF pending = "ContactSearch"
        THEN LET c == [h EXCEPT !.app.status =
                                    St("contact search unavailable; enter handle", 0, ""),
                                !.app.contact_suggestions = <<>>,
                                !.app.contact_query = None]
             IN  IF IsSome(h.app.contact_query)
                 THEN [c EXCEPT !.app.compose_to = Unwrap(h.app.contact_query),
                                !.app.input_mode = "Compose",
                                !.app.compose_field = "To"]
                 ELSE c
        ELSE IF error.code /= 0
        THEN [h EXCEPT !.app.status = St("rpc error ({code}): {message}", error.code, "")]
        ELSE [h EXCEPT !.app.status = St("rpc error: {message}", 0, "")]

(* the last statement of the Notification arm                              *)
notification_status(a) == [a EXCEPT !.status = St("new message", 0, "")]

(* the Notification arm from its test of notify on.  Notification::show()  *)
(* is a call that waits for the notification service: when the arm makes   *)
(* it the coordinator is left inside it (w.show), the status not yet       *)
(* assigned; otherwise the arm goes on to its last statement               *)
notification_show(w, message) ==
    IF w.app.notify /\ ~message.is_from_me THEN [w EXCEPT !.show = TRUE]
    ELSE [w EXCEPT !.app = notification_status(@)]

(* faulty variant: the message is appended whatever chat is selected       *)
handle_notification_append_all(w, method, params) ==
    IF method = "message" /\ IsSome(params.message)
    THEN LET message == Unwrap(params.message)
             a == [w EXCEPT !.app.messages = Append(@, message)]
             r == IF message.sender \notin a.app.contacts
                  THEN request_contact_resolve(a, <<message.sender>>) ELSE a
         IN  notification_show(r, message)
    ELSE w

(* the Notification arm of handle_rpc_events (tui)                         *)
handle_notification(w, method, params) ==
    IF method = "message" /\ IsSome(params.message)
    THEN LET message == Unwrap(params.message)
             chat == get(w.app.chats, w.app.selected)
             should_append == IsSome(chat) /\ Unwrap(chat).id = message.chat_id
             a == IF should_append
                  THEN [w EXCEPT !.app.messages = Append(@, message)] ELSE w
             r == IF message.sender \notin a.app.contacts
                  THEN request_contact_resolve(a, <<message.sender>>) ELSE a
         IN  notification_show(r, message)
    ELSE w

(* the Notification arm of App::handle_rpc_event (gui): as the tui's, and  *)
(* the message's attachments are fetched before the test of notify         *)
gui_handle_notification(w, method, params) ==
    IF method = "message" /\ IsSome(params.message)
    THEN LET message == Unwrap(params.message)
             chat == get(w.app.chats, w.app.selected)
             should_append == IsSome(chat) /\ Unwrap(chat).id = message.chat_id
             a == IF should_append
                  THEN [w EXCEPT !.app.messages = Append(@, message)] ELSE w
             r == IF message.sender \notin a.app.contacts
                  THEN request_contact_resolve(a, <<message.sender>>) ELSE a
         IN  notification_show(fetch_attachments_for_message(r, message), message)
    ELSE w

(* the Closed arm of handle_rpc_events / App::handle_rpc_event             *)
handle_closed(w, message, t) ==
    [w EXCEPT !.app = schedule_reconnect(
                          [w.app EXCEPT !.status = St("rpc closed", 0, message)], t)]

(* handle_rpc_events (tui): the body of the while loop for one event       *)
tui_handle_rpc_event(w, event, t) ==
    CASE event.type = "Response" ->
           LET id == Unwrap(event.id)
           IN  IF id \in DOMAIN w.app.pending
               THEN handle_response([w EXCEPT !.app.pending = remove(@, id)],
                                    w.app.pending[id], event.payload, id)
               ELSE w
      [] event.type = "Error" ->
           IF IsSome(event.id)
           THEN LET id == Unwrap(event.id)
                IN  IF id \in DOMAIN w.app.pending
                    THEN handle_rpc_error([w EXCEPT !.app.pending = remove(@, id)],
                                          w.app.pending[id], event.payload, id)
                    ELSE [w EXCEPT !.app.status =
                              St("rpc error: {error}", event.payload.code, "")]
           ELSE [w EXCEPT !.app.status = St("rpc error: {error}", event.payload.code, "")]
      [] event.type = "Notification" -> handle_notification(w, event.method, event.payload)
      [] event.type = "Closed" -> handle_closed(w, event.message, t)

(* App::handle_rpc_event (gui)                                             *)
gui_handle_rpc_event(w, event, t) ==
    CASE event.type = "Response" ->
           LET id == Unwrap(event.id)
           IN  IF id \in DOMAIN w.app.pending
               THEN gui_handle_response([w EXCEPT !.app.pending = remove(@, id)],
                                        w.app.pending[id], event.payload, id)
               ELSE w
      [] event.type = "Error" ->
           LET r == IF IsSome(event.id)
                    THEN [w EXCEPT !.app.pending = remove(@, Unwrap(event.id))]
                    ELSE w
           IN  [r EXCEPT !.app.status = St("rpc error: {error}", event.payload.code, "")]
      [] event.type = "Notification" -> gui_handle_notification(w, event.method, event.payload)
      [] event.type = "Closed" -> handle_closed(w, event.message, t)

(* faulty variant: a Response is handled without the pending lookup        *)
handle_rpc_event_unchecked(w, event, t) ==
    IF event.type = "Response" /\ Unwrap(event.id) \notin DOMAIN w.app.pending
    THEN handle_response(w, "Chats", event.payload, Unwrap(event.id))
    ELSE IF w.shell = "tui" THEN tui_handle_rpc_event(w, event, t)
    ELSE gui_handle_rpc_event(w, event, t)

handle_rpc_event(w, event, t) ==
    IF w.shell = "tui" THEN tui_handle_rpc_event(w, event, t)
    ELSE gui_handle_rpc_event(w, event, t)

(* faulty variant of the Ok arm: the old pending map is kept               *)
reconnect_ok_keep_pending(w) ==
    LET c == [w EXCEPT !.client = TRUE, !.fresh = TRUE, !.tx = <<>>,
                       !.writer = "running",
                       !.app.reconnect_at = None,
                       !.app.reconnect_attempts = 0,
                       !.app.watch_subscription = None,
                       !.app.status = St("reconnected", 0, "")]
        r == request_chats(c)
    IN  IF IsSome(r.app.watch_chat_id)
        THEN request_watch_subscribe(r, Unwrap(r.app.watch_chat_id)) ELSE r

(* faulty variant of the Ok arm: the old subscription token is kept        *)
reconnect_ok_keep_subscription(w) ==
    LET c == [w EXCEPT !.client = TRUE, !.fresh = TRUE, !.tx = <<>>,
                       !.writer = "running",
                       !.app.reconnect_at = None,
                       !.app.reconnect_attempts = 0,
                       !.app.pending = <<>>,
                       !.app.status = St("reconnected", 0, "")]
        r == request_chats(c)
    IN  IF IsSome(r.app.watch_chat_id)
        THEN request_watch_subscribe(r, Unwrap(r.app.watch_chat_id)) ELSE r

(* faulty variant of the Ok arm: the attempt counter is not reset          *)
reconnect_ok_keep_attempts(w) ==
    LET c == [w EXCEPT !.client = TRUE, !.fresh = TRUE, !.tx = <<>>,
                       !.writer = "running",
                       !.app.reconnect_at = None,
                       !.app.watch_subscription = None,
                       !.app.pending = <<>>,
                       !.app.status = St("reconnected", 0, "")]
        r == request_chats(c)
    IN  IF IsSome(r.app.watch_chat_id)
        THEN request_watch_subscribe(r, Unwrap(r.app.watch_chat_id)) ELSE r

(* handle_reconnect, the Ok arm of the match on config.connect()           *)
reconnect_ok(w) ==
    LET c == [w EXCEPT !.client = TRUE, !.fresh = TRUE, !.tx = <<>>,
                       !.writer = "running",
                       !.app.reconnect_at = None,
                       !.app.reconnect_attempts = 0,
                       !.app.watch_subscription = None,
                       !.app.pending = <<>>,
                       !.app.status = St("reconnected", 0, "")]
        r == request_chats(c)
    IN  IF IsSome(r.app.watch_chat_id)
        THEN request_watch_subscribe(r, Unwrap(r.app.watch_chat_id)) ELSE r

(* faulty variant of the Err arm: no further attempt is scheduled          *)
reconnect_err_give_up(w, t) ==
    [w EXCEPT !.app = [w.app EXCEPT !.status = St("reconnect failed", 0, ""),
                                    !.reconnect_at = None]]

(* handle_reconnect, the Err arm                                           *)
reconnect_err(w, t) ==
    [w EXCEPT !.app = schedule_reconnect(
                          [w.app EXCEPT !.status = St("reconnect failed", 0, ""),
                                        !.reconnect_at = None], t)]

(* faulty variant: connect() is tried whether or not an attempt is         *)
(* scheduled and due                                                       *)
handle_reconnect_unscheduled(w, t, ok) ==
    IF ok THEN reconnect_ok(w) ELSE reconnect_err(w, t)

(* handle_reconnect; ok is the outcome of config.connect()                 *)
handle_reconnect(w, t, ok) ==
    IF ~IsSome(w.app.reconnect_at) THEN w
    ELSE IF t < Unwrap(w.app.reconnect_at) THEN w
    ELSE IF ok THEN reconnect_ok(w)
    ELSE reconnect_err(w, t)

----------------------------------------------------------------------------
(* User input.  A KeyEvent is its code, for KeyCode::Char the char (0      *)
(* stands in for the other codes), and whether its modifiers hold          *)
(* CONTROL; open_ok is whether open_url succeeds when it is called.        *)

Key(code) == [code |-> code, c |-> 0, ctrl |-> FALSE]
Char(c) == [code |-> "Char", c |-> c, ctrl |-> FALSE]
Ctrl(key) == [key EXCEPT !.ctrl = TRUE]

(* the pattern KeyCode::Char(c), which leaves the modifiers aside          *)
IsChar(key, c) == key.code = "Char" /\ key.c = c

(* begin_compose                                                           *)
begin_compose(w, field) ==
    [w EXCEPT !.app.input_mode = "Compose",
              !.app.compose_field = field,
              !.app.status = St("compose: tab switch field, shift-tab recent, enter send",
                                0, "")]

(* current_message                                                         *)
current_message(a) == get(a.messages, a.message_index)

(* handle_open_url                                                         *)
handle_open_url(w, open_ok) ==
    LET message == current_message(w.app)
        urls == extract_urls(Unwrap(message).text)
    IN  IF ~IsSome(message)
        THEN [w EXCEPT !.app.status = St("no message selected", 0, "")]
        ELSE IF urls = <<>> THEN [w EXCEPT !.app.status = St("no url found", 0, "")]
        ELSE IF open_ok THEN [w EXCEPT !.app.status = St("opened {url}", 0, Head(urls))]
        ELSE [w EXCEPT !.app.status = St("failed to open url", 0, "")]

(* handle_reaction                                                         *)
handle_reaction(w) ==
    LET message == current_message(w.app)
    IN  IF IsSome(message)
        THEN [w EXCEPT !.app.input_mode = "Reaction",
                       !.app.input = <<>>,
                       !.app.reaction_target = Some(Unwrap(message).guid),
                       !.app.status = St("react: enter reaction (like/love/laugh/...)",
                                         0, "")]
        ELSE [w EXCEPT !.app.status = St("no message selected", 0, "")]

(* handle_arrow_navigation                                                 *)
handle_arrow_navigation(w, code) ==
    IF w.app.focus = "Chats"
    THEN IF code = "Up" /\ w.app.selected > 0
         THEN [w EXCEPT !.app.selected = @ - 1]
         ELSE IF code = "Down" /\ w.app.selected + 1 < Len(w.app.chats)
         THEN [w EXCEPT !.app.selected = @ + 1]
         ELSE w
    ELSE IF code = "Up" /\ w.app.message_index > 0
         THEN [w EXCEPT !.app.message_index = @ - 1]
         ELSE IF code = "Down" /\ w.app.message_index + 1 < Len(w.app.messages)
         THEN [w EXCEPT !.app.message_index = @ + 1]
         ELSE w

(* handle_enter                                                            *)
handle_enter(w) ==
    LET chat == get(w.app.chats, w.app.selected)
    IN  IF w.app.focus = "Chats" /\ IsSome(chat)
        THEN [request_history(w, Unwrap(chat).id) EXCEPT !.app.message_index = 0]
        ELSE w

(* handle_watch                                                            *)
handle_watch(w) ==
    LET chat == get(w.app.chats, w.app.selected)
    IN  IF IsSome(chat) THEN toggle_watch(w, Unwrap(chat).id) ELSE w

(* handle_normal_key, its arms in the order of the match; w.quit is the    *)
(* value it returns.  The keys are q (113), Ctrl-c (99), r (114), w (119), *)
(* s (115), n (110), c, o (111) and R (82); k, j, PageUp, PageDown, h and  *)
(* ? change only what is drawn (message_offset, show_help).                *)
handle_normal_key(w, key, open_ok) ==
    IF IsChar(key, 113) THEN [w EXCEPT !.quit = TRUE]
    ELSE IF key.code = "Tab"
    THEN [w EXCEPT !.app.focus = IF @ = "Chats" THEN "Messages" ELSE "Chats"]
    ELSE IF IsChar(key, 99) /\ key.ctrl THEN [w EXCEPT !.quit = TRUE]
    ELSE IF IsChar(key, 114) THEN request_chats(w)
    ELSE IF key.code \in {"Up", "Down"} THEN handle_arrow_navigation(w, key.code)
    ELSE IF key.code = "Enter" THEN handle_enter(w)
    ELSE IF IsChar(key, 119) THEN handle_watch(w)
    ELSE IF IsChar(key, 115) THEN begin_compose(w, "Body")
    ELSE IF IsChar(key, 110) THEN begin_compose(w, "To")
    ELSE IF IsChar(key, 99) THEN begin_compose(w, "Body")
    ELSE IF IsChar(key, 111) THEN handle_open_url(w, open_ok)
    ELSE IF IsChar(key, 82) THEN handle_reaction(w)
    ELSE w

(* cycle_recipient_history                                                 *)
cycle_recipient_history(w) ==
    IF w.app.recipient_history = <<>> THEN w
    ELSE LET next == IF IsSome(w.app.history_index)
                     THEN (Unwrap(w.app.history_index) + 1) % Len(w.app.recipient_history)
                     ELSE 0
         IN  [w EXCEPT !.app.history_index = Some(next),
                       !.app.compose_to = w.app.recipient_history[next + 1]]

(* refresh_contact_suggestions                                             *)
refresh_contact_suggestions(w) ==
    LET query == trim(w.app.compose_to)
    IN  IF len(query) < 2 \/ looks_like_handle(query)
        THEN [w EXCEPT !.app.contact_suggestions = <<>>]
        ELSE request_contact_search([w EXCEPT !.app.contact_query = Some(query)], query)

(* send_compose: the state it leaves and the value it returns              *)
send_compose(w) ==
    LET text == trim(w.app.compose_body)
        target == trim(w.app.compose_to)
        chat == get(w.app.chats, w.app.selected)
        sent(s) == [w |-> [s EXCEPT !.app.compose_body = <<>>,
                                    !.app.status = St("sent", 0, "")],
                    sent |-> TRUE]
        refused(status) == [w |-> [w EXCEPT !.app.status = St(status, 0, "")],
                            sent |-> FALSE]
    IN  IF text = <<>> THEN refused("message text required")
        ELSE IF target = <<>>
        THEN IF IsSome(chat)
             THEN LET s == request_send_chat(w, Unwrap(chat).id, text)
                  IN  sent(IF Unwrap(chat).identifier /= <<>>
                           THEN record_recipient(s, Unwrap(chat).identifier)
                           ELSE s)
             ELSE refused("no chat selected")
        ELSE IF looks_like_handle(target)
        THEN sent(record_recipient(request_send_to(w, target, text), target))
        ELSE IF w.app.contact_suggestions /= <<>>
        THEN LET handle == Head(w.app.contact_suggestions).handle
                 s == request_send_to(w, handle, text)
             IN  sent(record_recipient([s EXCEPT !.app.compose_to = handle], handle))
        ELSE refused("unknown recipient; enter handle")

(* handle_compose_key                                                      *)
handle_compose_key(w, key) ==
    CASE key.code = "Esc" ->
           [w EXCEPT !.app.input_mode = "Normal", !.app.status = St("cancelled", 0, "")]
      [] key.code = "Enter" ->
           IF w.app.compose_field = "To"
           THEN [w EXCEPT !.app.compose_to = IF w.app.contact_suggestions /= <<>>
                                             THEN Head(w.app.contact_suggestions).handle
                                             ELSE @,
                          !.app.compose_field = "Body"]
           ELSE LET s == send_compose(w)
                IN  IF s.sent THEN [s.w EXCEPT !.app.input_mode = "Normal"] ELSE s.w
      [] key.code = "Backspace" ->
           IF w.app.compose_field = "To"
           THEN refresh_contact_suggestions([w EXCEPT !.app.compose_to = pop(@)])
           ELSE [w EXCEPT !.app.compose_body = pop(@)]
      [] key.code = "Tab" ->
           [w EXCEPT !.app.compose_field = IF @ = "To" THEN "Body" ELSE "To"]
      [] key.code = "BackTab" -> cycle_recipient_history(w)
      [] key.code = "Char" ->
           IF w.app.compose_field = "To"
           THEN refresh_contact_suggestions([w EXCEPT !.app.compose_to = Append(@, key.c)])
           ELSE [w EXCEPT !.app.compose_body = Append(@, key.c)]
      [] OTHER -> w

(* handle_input_reaction                                                   *)
handle_input_reaction(w, key) ==
    CASE key.code = "Esc" ->
           [w EXCEPT !.app.input_mode = "Normal",
                     !.app.input = <<>>,
                     !.app.reaction_target = None,
                     !.app.status = St("cancelled", 0, "")]
      [] key.code = "Enter" ->
           LET reaction == trim(w.app.input)
           IN  IF reaction = <<>>
               THEN [w EXCEPT !.app.status = St("reaction required", 0, "")]
               ELSE IF IsSome(w.app.reaction_target)
               THEN [request_reaction(w, Unwrap(w.app.reaction_target), reaction)
                        EXCEPT !.app.input_mode = "Normal",
                               !.app.input = <<>>,
                               !.app.reaction_target = None]
               ELSE [w EXCEPT !.app.status = St("no message selected", 0, "")]
      [] key.code = "Backspace" -> [w EXCEPT !.app.input = pop(@)]
      [] key.code = "Char" -> [w EXCEPT !.app.input = Append(@, key.c)]
      [] OTHER -> w

(* handle_key (tui)                                                        *)
handle_key(w, key, open_ok) ==
    CASE w.app.input_mode = "Normal" -> handle_normal_key(w, key, open_ok)
      [] w.app.input_mode = "Compose" -> handle_compose_key(w, key)
      [] w.app.input_mode = "Reaction" -> handle_input_reaction(w, key)

(* enum AppMessage (gui): the variant, its index and its string            *)
AppMessage(type) == [type |-> type, index |-> 0, value |-> <<>>, url |-> ""]
AppMessageAt(type, index) == [AppMessage(type) EXCEPT !.index = index]
AppMessageOf(type, value) == [AppMessage(type) EXCEPT !.value = value]
OpenUrl(url) == [AppMessage("OpenUrl") EXCEPT !.url = url]

(* text_editor::Content::perform, for the edits at the end of the text     *)
perform(content, action) ==
    IF action = <<"Backspace">> THEN pop(content) ELSE Append(content, action[2])

(* App::update (gui), the arm of AppMessage::SelectChat                    *)
select_chat(w, index) ==
    LET previous == get(w.app.chats, w.app.selected)
        s == [w EXCEPT !.app.selected = index, !.app.selected_message = None]
        chat == get(s.app.chats, index)
    IN  IF IsSome(chat) /\ (~IsSome(previous) \/ Unwrap(chat).id /= Unwrap(previous).id)
        THEN request_history(s, Unwrap(chat).id) ELSE s

(* App::update (gui), the arm of AppMessage::StartReaction                 *)
start_reaction(w) ==
    IF IsSome(w.app.selected_message)
    THEN LET message == get(w.app.messages, Unwrap(w.app.selected_message))
         IN  IF ~IsSome(message) THEN w
             ELSE IF Unwrap(message).guid = ""
             THEN [w EXCEPT !.app.status = St("selected message missing guid", 0, "")]
             ELSE [w EXCEPT !.app.input_mode = "Reaction",
                            !.app.input = <<>>,
                            !.app.reaction_target = Some(Unwrap(message).guid),
                            !.app.status = St("reaction: enter reaction", 0, "")]
    ELSE [w EXCEPT !.app.status = St("select a message first", 0, "")]

(* App::update (gui), the arm of AppMessage::SendCompose                   *)
gui_send_compose(w) ==
    LET text == trim(w.app.compose_body)
        target == trim(w.app.compose_to)
        chat == get(w.app.chats, w.app.selected)
        sent(s) == [s EXCEPT !.app.compose_body = <<>>, !.app.status = St("sent", 0, "")]
    IN  IF text = <<>> THEN [w EXCEPT !.app.status = St("message text required", 0, "")]
        ELSE IF target = <<>>
        THEN IF IsSome(chat)
             THEN LET s == request_send_chat(w, Unwrap(chat).id, text)
                  IN  sent(IF Unwrap(chat).identifier /= <<>>
                           THEN record_recipient(s, Unwrap(chat).identifier)
                           ELSE s)
             ELSE [w EXCEPT !.app.status = St("no chat selected", 0, "")]
        ELSE IF looks_like_handle(target)
        THEN sent(record_recipient(request_send_to(w, target, text), target))
        ELSE request_contact_search(
                 [w EXCEPT !.app.contact_query = Some(target),
                           !.app.status = St("searching contacts...", 0, "")], target)

(* App::update (gui), the arm of AppMessage::SubmitReaction                *)
submit_reaction(w) ==
    LET reaction == trim(w.app.input)
        r == IF ~IsSome(w.app.reaction_target) THEN w
             ELSE IF reaction /= <<>>
             THEN [request_reaction(w, Unwrap(w.app.reaction_target), reaction)
                      EXCEPT !.app.status = St("reaction sent", 0, "")]
             ELSE [w EXCEPT !.app.status = St("reaction required", 0, "")]
    IN  [r EXCEPT !.app.input_mode = "None",
                  !.app.input = <<>>,
                  !.app.reaction_target = None]

(* App::update (gui), every arm but AppMessage::Tick; ToggleHelp changes   *)
(* only what is drawn                                                      *)
update(w, message, open_ok) ==
    LET chat == get(w.app.chats, w.app.selected)
    IN  CASE message.type = "RefreshChats" -> request_chats(w)
          [] message.type = "SelectChat" -> select_chat(w, message.index)
          [] message.type = "SelectMessage" ->
               [w EXCEPT !.app.selected_message = Some(message.index)]
          [] message.type = "LoadHistory" ->
               IF IsSome(chat) THEN request_history(w, Unwrap(chat).id) ELSE w
          [] message.type = "ToggleWatch" ->
               IF IsSome(chat) THEN toggle_watch(w, Unwrap(chat).id) ELSE w
          [] message.type = "StartReaction" -> start_reaction(w)
          [] message.type = "ComposeToChanged" ->
               [w EXCEPT !.app.compose_to = message.value]
          [] message.type = "ComposeAction" ->
               [w EXCEPT !.app.compose_body = perform(@, message.value)]
          [] message.type = "SendCompose" -> gui_send_compose(w)
          [] message.type = "ClearCompose" ->
               [w EXCEPT !.app.compose_to = <<>>,
                         !.app.compose_body = <<>>,
                         !.app.status = St("cleared", 0, "")]
          [] message.type = "ReactionInputChanged" -> [w EXCEPT !.app.input = message.value]
          [] message.type = "SubmitReaction" -> submit_reaction(w)
          [] message.type = "CancelReaction" ->
               [w EXCEPT !.app.input_mode = "None",
                         !.app.input = <<>>,
                         !.app.reaction_target = None,
                         !.app.status = St("reaction cancelled", 0, "")]
          [] message.type = "OpenUrl" ->
               IF open_ok
               THEN [w EXCEPT !.app.status = St("opened {url}", 0, message.url)]
               ELSE [w EXCEPT !.app.status = St("failed to open url", 0, "")]
          [] OTHER -> w

(* one input of the user: a key (tui) or a message of the view (gui)       *)
user_input(w, key, message, open_ok) ==
    IF w.shell = "tui" THEN handle_key(w, key, open_ok) ELSE update(w, message, open_ok)

----------------------------------------------------------------------------
(* The state machine.                                                      *)

World ==
    [app |-> app, counter |-> COUNTER, tx |-> tx, returned |-> returned,
     handled |-> handled, writer |-> writer, client |-> client, shell |-> shell,
     fresh |-> FALSE, show |-> FALSE, quit |-> FALSE]

NoEvent == [type |-> "None", id |-> None, method |-> "", code |-> 0, found |-> FALSE]

(* what an operation of the coordinator leaves behind                      *)
Commit(w) ==
    /\ app' = w.app
    /\ COUNTER' = w.counter
    /\ returned' = w.returned
    /\ handled' = w.handled
    /\ tx' = w.tx
    /\ writer' = w.writer
    /\ client' = w.client

(* main / run_app (tui) and App::new (gui) up to the first tick: the       *)
(* client is connected and request_chats has been called once.  The tui    *)
(* exits when the first connect fails; the gui goes on without a client.   *)
Init ==
    /\ shell \in {"tui", "gui"}
    /\ client \in BOOLEAN
    /\ shell = "tui" => client
    /\ \E notify \in BOOLEAN :
         LET w == request_chats(
                    [app |-> IF shell = "tui" THEN new_app(notify)
                             ELSE IF client THEN gui_new_app(notify)
                             ELSE [gui_new_app(notify) EXCEPT
                                      !.status = St("rpc error: {err}", 0, "")],
                     counter |-> 0, tx |-> <<>>, returned |-> <<>>,
                     handled |-> <<>>, writer |-> "running", client |-> client,
                     shell |-> shell, fresh |-> FALSE, show |-> FALSE,
                     quit |-> FALSE])
       IN  /\ app = w.app
           /\ COUNTER = w.counter
           /\ returned = w.returned
           /\ handled = w.handled
           /\ tx = w.tx
    /\ wire = <<>>
    /\ writer = IF client THEN "running" ELSE "none"
    /\ reader = IF client THEN "reading" ELSE "none"
    /\ events = <<>>
    /\ co = "idle"
    /\ batch = <<>>
    /\ now = 0
    /\ nlines = 0
    /\ nuser = 0
    /\ nconn = 0
    /\ last = NoEvent
    /\ dropped = None
    /\ first_id = 0
    /\ old = [writers |-> 0, readers |-> 0, reading |-> 0]

(* one input of the user is handled; run_app leaves its loop when          *)
(* handle_key returns true                                                 *)
UserCall(w, max) ==
    /\ co = "idle"
    /\ nuser < max
    /\ nuser' = nuser + 1
    /\ Commit(w)
    /\ co' = IF w.quit THEN "quit" ELSE co
    /\ UNCHANGED <<shell, wire, reader, events, batch, now, nlines, nconn, last,
                   dropped, first_id, old>>

(* the tui takes the keys of the chat list in Normal mode, and Enter, Up   *)
(* and Down act on the chats with the chat pane focused                    *)
NormalMode == shell = "tui" => app.input_mode = "Normal"
ChatPane == shell = "tui" => app.input_mode = "Normal" /\ app.focus = "Chats"

(* key 'r' (tui) / AppMessage::RefreshChats (gui)                          *)
Refresh(max) ==
    /\ NormalMode
    /\ UserCall(user_input(World, Char(114), AppMessage("RefreshChats"), FALSE), max)

RefreshChats == Refresh(MaxUserCalls)

(* key Enter with the chat pane focused (tui) / AppMessage::LoadHistory    *)
Load(max) ==
    /\ ChatPane
    /\ IsSome(get(app.chats, app.selected))
    /\ UserCall(user_input(World, Key("Enter"), AppMessage("LoadHistory"), FALSE), max)

LoadHistory == Load(MaxUserCalls)

(* key 'w' -> handle_watch (tui) / AppMessage::ToggleWatch (gui)           *)
Toggle(max) ==
    /\ NormalMode
    /\ IsSome(get(app.chats, app.selected))
    /\ UserCall(user_input(World, Char(119), AppMessage("ToggleWatch"), FALSE), max)

ToggleWatch == Toggle(MaxUserCalls)

(* keys Up / Down in the chat pane (tui): handle_arrow_navigation;         *)
(* AppMessage::SelectChat(index) (gui), which also loads the history       *)
Select(max) ==
    /\ ChatPane
    /\ \E index \in 0..(Len(app.chats) - 1) :
          /\ index /= app.selected
          /\ shell = "tui" => index \in {app.selected - 1, app.selected + 1}
          /\ UserCall(user_input(World,
                                 Key(IF index < app.selected THEN "Up" ELSE "Down"),
                                 AppMessageAt("SelectChat", index), FALSE), max)

SelectChat == Select(MaxUserCalls)

(* what the user may type: in Normal mode the keys that are bound, in the  *)
(* other modes the editing keys and a few chars: b, 5, the space and the   *)
(* two-byte e with an acute accent                                         *)
TextChars == {98, 53, 32, 233}

NormalKeys ==
    {Key("Tab"), Key("Enter"), Key("Up"), Key("Down"), Ctrl(Char(99))}
        \cup {Char(c) : c \in {113, 114, 119, 115, 110, 99, 111, 82}}

EditKeys ==
    {Key("Esc"), Key("Enter"), Key("Backspace"), Key("Tab"), Key("BackTab")}
        \cup {Char(c) : c \in TextChars}

Keys == IF app.input_mode = "Normal" THEN NormalKeys ELSE EditKeys

(* what the view may send: its buttons, the rows that are shown, a few     *)
(* texts for the two inputs and the edits of the editor                    *)
Texts == {<<>>, <<53>>, <<98, 98>>, <<160, 53>>}

AppMessages ==
    {AppMessage(type) : type \in {"RefreshChats", "LoadHistory", "ToggleWatch",
                                   "StartReaction", "SendCompose", "ClearCompose",
                                   "SubmitReaction", "CancelReaction"}}
        \cup {AppMessageAt("SelectChat", index) : index \in 0..(Len(app.chats) - 1)}
        \cup {AppMessageAt("SelectMessage", index) : index \in 0..(Len(app.messages) - 1)}
        \cup {AppMessageOf(type, value) :
                  type \in {"ComposeToChanged", "ReactionInputChanged"}, value \in Texts}
        \cup {AppMessageOf("ComposeAction", action) :
                  action \in {<<"Backspace">>} \cup {<<"Insert", c>> : c \in TextChars}}
        \cup {OpenUrl("u")}

(* a key reaches handle_key between two ticks (tui)                        *)
KeyPress(max) ==
    /\ shell = "tui"
    /\ \E key \in Keys, open_ok \in BOOLEAN :
          /\ ~IsChar(key, 111) => open_ok
          /\ UserCall(handle_key(World, key, open_ok), max)

(* a message of the view reaches App::update (gui)                         *)
Update(max) ==
    /\ shell = "gui"
    /\ \E message \in AppMessages, open_ok \in BOOLEAN :
          /\ message.type /= "OpenUrl" => open_ok
          /\ UserCall(update(World, message, open_ok), max)

(* faulty variant: the writer takes the newest line of the queue           *)
WriterStepLifo ==
    /\ writer = "running"
    /\ tx /= <<>>
    /\ wire' = Append(wire, tx[Len(tx)])
    /\ tx' = SubSeq(tx, 1, Len(tx) - 1)
    /\ UNCHANGED <<shell, COUNTER, returned, handled, client, writer, reader, events, app,
                   co, batch, now, nlines, nuser, nconn, last, dropped, first_id, old>>

(* writer_thread: one iteration of  for line in rx                         *)
WriterStep ==
    /\ writer = "running"
    /\ tx /= <<>>
    /\ \E ok \in BOOLEAN :
         IF ok THEN /\ wire' = Append(wire, Head(tx))
                    /\ tx' = Tail(tx)
                    /\ writer' = writer
         ELSE /\ wire' = wire
              /\ tx' = <<>>
              /\ writer' = "stopped"
    /\ UNCHANGED <<shell, COUNTER, returned, handled, client, reader, events, app, co,
                   batch, now, nlines, nuser, nconn, last, dropped, first_id, old>>

(* the identifiers a backend line may carry in the reader's own           *)
(* specification: every one returned so far and the next one               *)
LineIds == {to_string(k) : k \in 0..COUNTER}

Lines ==
    {BlankLine, InvalidLine, IoErrLine, OtherLine, UntiedErrorLine(V2),
     NotificationLine("message", V1), NotificationLine("message", V2),
     NotificationLine("other", V0)}
    \cup {ResponseLine(id, v) : id \in LineIds, v \in Values}
    \cup {TiedErrorLine(id, V2) : id \in LineIds}
    \cup {BothLine("message", V3, id, V1) : id \in LineIds}
    \cup {NumericIdLine(id, V1) : id \in LineIds}

(* the lines the backend sends in the full system: replies to pending      *)
(* requests (twice, perhaps), to the first request of the process (stale   *)
(* once answered or cleared) and to an identifier no request ever          *)
(* carries, and the unsolicited lines                                      *)
AlienId == <<0, 0>>
WireIds == DOMAIN app.pending \cup {to_string(0), AlienId}

WireLines ==
    {InvalidLine, UntiedErrorLine(V2),
     NotificationLine("message", V1), NotificationLine("message", V2)}
    \cup {ResponseLine(id, v) : id \in WireIds, v \in {V0, V1}}
    \cup {TiedErrorLine(id, V2) : id \in WireIds}

(* reader_thread: one iteration of  for line in buffered.lines().flatten() *)
ReadFrame(line, max) ==
    /\ reader \in {"reading", "failing"}
    /\ nlines < max
    /\ events' = events \o reader_line(line).emit
    /\ reader' = IF reader_line(line).stop THEN "closing" ELSE "reading"
    /\ nlines' = nlines + 1
    /\ UNCHANGED <<shell, COUNTER, returned, handled, client, tx, wire, writer, app, co,
                   batch, now, nuser, nconn, last, dropped, first_id, old>>

ReaderRead(line) == ReadFrame(line, MaxLines)

ReaderLine == \E line \in WireLines : ReaderRead(line)

ReaderAnyLine == \E line \in Lines : ReaderRead(line)

(* reader_thread: the stream ends, or the loop was left by break; the      *)
(* trailing Closed is sent                                                 *)
Exit(max) ==
    /\ \/ reader \in {"reading", "failing"} /\ nlines < max
       \/ reader = "closing"
    /\ events' = events \o reader_exit
    /\ reader' = "done"
    /\ nlines' = IF reader = "closing" THEN nlines ELSE nlines + 1
    /\ UNCHANGED <<shell, COUNTER, returned, handled, client, tx, wire, writer, app, co,
                   batch, now, nuser, nconn, last, dropped, first_id, old>>

ReaderExit == Exit(MaxLines)

RECURSIVE Reverse(_)
Reverse(seq) == IF seq = <<>> THEN <<>> ELSE Reverse(Tail(seq)) \o <<Head(seq)>>

(* faulty variant: the gui collects the queued events newest first         *)
TickNewestFirst ==
    /\ co = "idle"
    /\ co' = "drain"
    /\ IF shell = "gui" /\ client
       THEN batch' = Reverse(events) /\ events' = <<>>
       ELSE UNCHANGED <<batch, events>>
    /\ UNCHANGED <<shell, COUNTER, returned, handled, client, tx, wire, writer, reader,
                   app, now, nlines, nuser, nconn, last, dropped, first_id, old>>

(* faulty variant: the drain may start in the middle of a dispatch         *)
TickAnytime ==
    /\ co' = "drain"
    /\ IF shell = "gui" /\ client
       THEN batch' = batch \o events /\ events' = <<>>
       ELSE UNCHANGED <<batch, events>>
    /\ UNCHANGED <<shell, COUNTER, returned, handled, client, tx, wire, writer, reader,
                   app, now, nlines, nuser, nconn, last, dropped, first_id, old>>

(* the start of a tick: run_app reaches handle_rpc_events (tui);           *)
(* AppMessage::Tick calls drain_events, which first collects what is       *)
(* queued (gui)                                                            *)
Tick ==
    /\ co = "idle"
    /\ co' = "drain"
    /\ IF shell = "gui" /\ client
       THEN batch' = events /\ events' = <<>>
       ELSE UNCHANGED <<batch, events>>
    /\ UNCHANGED <<shell, COUNTER, returned, handled, client, tx, wire, writer, reader,
                   app, now, nlines, nuser, nconn, last, dropped, first_id, old>>

Queue == IF shell = "gui" THEN batch ELSE events

(* a Closed event of the current client has been handled: the connection  *)
(* is down and no reconnect has succeeded since                            *)
Disconnected == IsSome(dropped) /\ Unwrap(dropped).conn = nconn

(* a watch.subscribe request awaits its reply                            *)
SubscribePending(pending) == \E id \in DOMAIN pending : pending[id] = "WatchSubscribe"

(* one event of the drain, up to the end of its arm or, in the             *)
(* Notification arm, up to the call of Notification::show()                *)
DrainEvent ==
    /\ co = "drain"
    /\ Queue /= <<>>
    /\ LET event == Head(Queue)
       IN  /\ \E fs \in FileSystems :
                  LET w == handle_rpc_event(World @@ [fs |-> fs], event, now)
                  IN  Commit(w) /\ co' = IF w.show THEN "show" ELSE co
           /\ last' = [type |-> event.type, id |-> event.id, method |-> event.method,
                       code |-> event.payload.code,
                       found |-> IsSome(event.id) /\ Unwrap(event.id) \in DOMAIN app.pending]
           /\ dropped' = IF event.type = "Closed" /\ ~Disconnected
                         THEN Some([sub |-> app.watch_subscription,
                                    chat |-> app.watch_chat_id, conn |-> nconn,
                                    subscribing |-> SubscribePending(app.pending)])
                         ELSE dropped
    /\ IF shell = "gui" THEN batch' = Tail(batch) /\ events' = events
       ELSE events' = Tail(events) /\ batch' = batch
    /\ UNCHANGED <<shell, wire, reader, now, nlines, nuser, nconn, first_id, old>>

(* Notification::show() returns, with Ok or Err: the Notification arm      *)
(* assigns the status and the drain goes on                                *)
NotificationShow ==
    /\ co = "show"
    /\ app' = notification_status(app)
    /\ co' = "drain"
    /\ UNCHANGED <<shell, COUNTER, returned, handled, client, tx, wire, writer, reader,
                   events, batch, now, nlines, nuser, nconn, last, dropped, first_id, old>>

(* *client = new_client drops the RpcClient held before: its Sender and    *)
(* its Receiver go, the two threads are detached and run on.  wr and rd    *)
(* are the positions of its writer and reader at that moment               *)
drop_client(o, wr, rd) ==
    [writers |-> o.writers + (IF wr = "running" THEN 1 ELSE 0),
     readers |-> o.readers + (IF rd = "closing" THEN 1 ELSE 0),
     reading |-> o.reading + (IF rd \in {"reading", "failing"} THEN 1 ELSE 0)]

(* handle_reconnect returns and the tick ends.  ok is what                 *)
(* config.connect() has returned if it was called.  A new client takes     *)
(* the place of the old one with whatever the old event channel holds at   *)
(* that moment                                                             *)
EndTick(ok) ==
    /\ LET w == handle_reconnect(World, now, ok)
       IN  /\ Commit(w)
           /\ IF w.fresh
              THEN /\ events' = <<>>
                   /\ wire' = <<>>
                   /\ reader' = "reading"
                   /\ nconn' = nconn + 1
                   /\ first_id' = Len(returned)
                   /\ old' = drop_client(old, writer, reader)
              ELSE UNCHANGED <<events, wire, reader, nconn, first_id, old>>
    /\ co' = "idle"
    /\ last' = NoEvent
    /\ now' = IF IsSome(app'.reconnect_at) THEN now ELSE 0
    /\ UNCHANGED <<shell, batch, nlines, nuser, dropped>>

Due == IsSome(app.reconnect_at) /\ now >= Unwrap(app.reconnect_at)

(* the drain found the queue empty (try_recv gave Empty, or the collected  *)
(* batch is used up) and handle_reconnect returns early: nothing           *)
(* scheduled, or not yet due                                               *)
HandleReconnectIdle == co = "drain" /\ Queue = <<>> /\ ~Due /\ EndTick(FALSE)

(* faulty variant: handle_reconnect is entered with events still queued    *)
HandleReconnectDueEarly ==
    /\ co = "drain"
    /\ Due
    /\ co' = "connecting"
    /\ UNCHANGED <<shell, COUNTER, returned, handled, client, tx, wire, writer, reader,
                   events, app, batch, now, nlines, nuser, nconn, last, dropped,
                   first_id, old>>

(* the drain found the queue empty and handle_reconnect finds the          *)
(* scheduled time reached: it calls config.connect(), and the reader and   *)
(* the writer run on while the call lasts                                  *)
HandleReconnectDue ==
    /\ co = "drain"
    /\ Queue = <<>>
    /\ Due
    /\ co' = "connecting"
    /\ UNCHANGED <<shell, COUNTER, returned, handled, client, tx, wire, writer, reader,
                   events, app, batch, now, nlines, nuser, nconn, last, dropped,
                   first_id, old>>

(* handle_reconnect: connect() succeeds                                    *)
HandleReconnectOk == co = "connecting" /\ EndTick(TRUE)

(* handle_reconnect: connect() fails                                       *)
HandleReconnectErr ==
    co = "connecting" /\ app.reconnect_attempts <= MaxFails /\ EndTick(FALSE)

(* time passes until the scheduled reconnect attempt is due                *)
AdvanceClock ==
    /\ IsSome(app.reconnect_at)
    /\ now < Unwrap(app.reconnect_at)
    /\ now' = Unwrap(app.reconnect_at)
    /\ UNCHANGED <<shell, COUNTER, returned, handled, client, tx, wire, writer, reader,
                   events, app, co, batch, nlines, nuser, nconn, last, dropped, first_id, old>>

Next ==
    \/ RefreshChats
    \/ LoadHistory
    \/ ToggleWatch
    \/ SelectChat
    \/ ReaderLine
    \/ ReaderExit
    \/ Tick
    \/ DrainEvent
    \/ NotificationShow
    \/ HandleReconnectIdle
    \/ HandleReconnectDue
    \/ HandleReconnectOk
    \/ HandleReconnectErr
    \/ AdvanceClock

Spec == Init /\ [][Next]_vars

(* The framer's reader loop fed every shape of line, with the coordinator  *)
(* draining what it emits.                                                 *)
NextReader ==
    \/ ReaderAnyLine
    \/ ReaderExit
    \/ Tick
    \/ DrainEvent
    \/ NotificationShow
    \/ HandleReconnectIdle

SpecReader == Init /\ [][NextReader]_vars

(* The watch across a reconnect: the user toggles the watch, the backend   *)
(* answers what is pending or ends the stream, the coordinator reconnects. *)
WatchToggle == Toggle(MaxToggles)

WatchReply == \E id \in DOMAIN app.pending : ReadFrame(ResponseLine(id, V1), MaxWatchLines)

WatchExit == Exit(MaxWatchLines)

NextWatch ==
    \/ WatchToggle
    \/ WatchReply
    \/ WatchExit
    \/ Tick
    \/ DrainEvent
    \/ HandleReconnectIdle
    \/ HandleReconnectDue
    \/ HandleReconnectOk
    \/ HandleReconnectErr
    \/ AdvanceClock

SpecWatch == Init /\ [][NextWatch]_vars

(* The reconnection loop under the scheduling the code has: the stream    *)
(* ends or a line fails to parse, the user may refresh, and the            *)
(* coordinator's loop never stops ticking (run_app's loop, the gui's       *)
(* 150 ms timer), a tick always runs to its end, time passes, and a        *)
(* transport that is tried again and again accepts in the end.             *)
ReaderGarbage == ReaderRead(InvalidLine)

NextLive ==
    \/ RefreshChats
    \/ ReaderGarbage
    \/ ReaderExit
    \/ Tick
    \/ DrainEvent
    \/ HandleReconnectIdle
    \/ HandleReconnectDue
    \/ HandleReconnectOk
    \/ HandleReconnectErr
    \/ AdvanceClock

LiveSpec ==
    /\ Init /\ [][NextLive]_vars
    /\ WF_vars(Tick)
    /\ WF_vars(DrainEvent)
    /\ WF_vars(HandleReconnectIdle \/ HandleReconnectDue \/ HandleReconnectOk
                  \/ HandleReconnectErr)
    /\ WF_vars(AdvanceClock)
    /\ SF_vars(HandleReconnectOk)

----------------------------------------------------------------------------
(* Claims.                                                                 *)

(* C1: all identifiers send_request has returned in this process are       *)
(* pairwise distinct, across clients (reconnects) too.                     *)
C1_IdsDistinct ==
    \A i, j \in DOMAIN returned : i /= j => returned[i] /= returned[j]

C1_Witness == Len(returned) >= 3 /\ nconn >= 1 /\ first_id < Len(returned)

(* a Response or tied Error at the head of the drain whose id is not in    *)
(* the pending map                                                         *)
UnknownReply ==
    /\ co = "drain"
    /\ Queue /= <<>>
    /\ Head(Queue).type \in {"Response", "Error"}
    /\ IsSome(Head(Queue).id)
    /\ Unwrap(Head(Queue).id) \notin DOMAIN app.pending

(* C2 as stated: draining a Response or tied Error with an unknown id      *)
(* leaves the whole coordinator state, status included, unchanged.         *)
C2_Original == [][(UnknownReply /\ DrainEvent) => app' = app]_vars

(* C2 amended: an unknown Response changes nothing; an unknown tied Error  *)
(* changes only the status, which becomes the rpc error text; neither      *)
(* invokes a handler nor dispatches a request.                             *)
C2_Discard ==
    [][(UnknownReply /\ DrainEvent) =>
          /\ Head(Queue).type = "Response" => app' = app
          /\ Head(Queue).type = "Error" =>
                app' = [app EXCEPT !.status =
                           St("rpc error: {error}", Head(Queue).payload.code, "")]
          /\ handled' = handled
          /\ returned' = returned
          /\ tx' = tx]_vars

C2_Witness ==
    /\ last.type = "Error" /\ IsSome(last.id) /\ ~last.found
    /\ app.pending /= <<>>
    /\ app.status = St("rpc error: {error}", 7, "")

(* the category section 6 of the specification gives a line                *)
WireShape(line) ==
    IF line.text /= "json" THEN "Closed"
    ELSE IF IsSome(as_str(line.id)) /\ IsSome(line.result) THEN "Response"
    ELSE IF IsSome(line.error) /\ (line.id = None \/ IsSome(as_str(line.id))) THEN "Error"
    ELSE IF IsSome(as_str(line.method)) /\ IsSome(line.params) /\ line.id = None
    THEN "Notification"
    ELSE "Closed"

(* C3: for every non-empty line read, the reader loop emits exactly one    *)
(* event, of the category of the line's shape, Closed when it has none.    *)
C3_OneEventPerLine ==
    [][\A line \in Lines :
          (line.text \in {"json", "invalid"} /\ ReaderRead(line)) =>
             /\ Len(events') = Len(events) + 1
             /\ events'[Len(events')].type = WireShape(line)]_vars

(* C4 as stated: a frame with method+params and a string id+result is      *)
(* emitted as a Response.                                                  *)
C4_Original ==
    [][\A id \in LineIds :
          ReaderRead(BothLine("message", V3, id, V1)) =>
             events' = Append(events, Response(id, V1))]_vars

(* C4 amended: such a frame is emitted as a Notification (method+params    *)
(* is tested first), and draining a Notification removes no pending entry. *)
C4_NotificationFirst ==
    [][/\ \A id \in LineIds :
             ReaderRead(BothLine("message", V3, id, V1)) =>
                events' = Append(events, Notification("message", V3))
       /\ (DrainEvent /\ Head(Queue).type = "Notification") =>
             DOMAIN app.pending \subseteq DOMAIN app'.pending]_vars

C4_Witness ==
    /\ last.type = "Notification" /\ last.method = "message" /\ last.code = 3
    /\ to_string(0) \in DOMAIN app.pending
    /\ handled = <<>>

(* C5: a line with an error member and no id reaches the coordinator as    *)
(* an Error event without id.                                              *)
C5_UntiedErrorDelivered ==
    [][ReaderRead(UntiedErrorLine(V2)) => events' = Append(events, Error(None, V2))]_vars

(* C6: a successful reconnect leaves none of the old pending identifiers   *)
(* in the map, the attempt counter 0 and nothing scheduled; and no handler *)
(* ever runs for a request dispatched before the current client existed.   *)
C6_ReconnectClears ==
    [][/\ HandleReconnectOk =>
             /\ DOMAIN app.pending \cap DOMAIN app'.pending = {}
             /\ app'.reconnect_attempts = 0
             /\ app'.reconnect_at = None
       /\ \A i \in DOMAIN handled' :
             i > Len(handled) =>
                \E k \in (first_id + 1)..Len(returned) : returned[k] = handled'[i]]_vars

C6_Witness ==
    /\ nconn >= 1
    /\ first_id >= 2
    /\ app.reconnect_at = None /\ app.reconnect_attempts = 0
    /\ handled /= <<>>
    /\ \E k \in (first_id + 1)..Len(returned) : returned[k] = handled[Len(handled)]

(* the subscribe calls queued on the current connection                    *)
Subscribes(queue) == {i \in DOMAIN queue : queue[i].method = "watch.subscribe"}

(* exactly one subscribe call, for chat_id, queued and registered          *)
OneSubscribe(queue, pending, chat_id) ==
    /\ Cardinality(Subscribes(queue)) = 1
    /\ \A i \in Subscribes(queue) :
          /\ queue[i].params.chat_id = chat_id
          /\ queue[i].id \in DOMAIN pending
          /\ pending[queue[i].id] = "WatchSubscribe"

(* the connection dropped while a token was held for a watched chat        *)
DroppedWatching ==
    /\ Disconnected
    /\ IsSome(Unwrap(dropped).sub)
    /\ IsSome(Unwrap(dropped).chat)

(* C7 as stated: a token held for a watched conversation when the          *)
(* connection dropped makes the successful reconnect dispatch exactly one  *)
(* subscribe for that conversation.                                        *)
C7_Original ==
    [][(DroppedWatching /\ HandleReconnectOk) =>
          OneSubscribe(tx', app'.pending, Unwrap(dropped).chat)]_vars

(* C8: a dispatch while disconnected adds nothing to the pending map and   *)
(* enqueues nothing for the writer.                                        *)
C8_DispatchNoOp ==
    [][(Disconnected /\ (RefreshChats \/ LoadHistory \/ ToggleWatch \/ SelectChat)) =>
          /\ app'.pending = app.pending
          /\ tx' = tx]_vars

(* C9: every Closed event drained leaves a reconnect attempt scheduled     *)
(* and the status carrying that event's reason.                            *)
C9_ClosedSchedules ==
    [][(DrainEvent /\ Head(Queue).type = "Closed") =>
          /\ IsSome(app'.reconnect_at)
          /\ app'.reconnect_attempts >= 1
          /\ app'.status = St("rpc closed", 0, Head(Queue).message)]_vars

C9_Witness ==
    /\ last.type = "Closed"
    /\ IsSome(app.reconnect_at)
    /\ app.status = St("rpc closed", 0, ParseError)

(* C10: a failed reconnect attempt schedules the next one, whatever the    *)
(* attempt count; while an attempt is scheduled a further attempt          *)
(* eventually fires; and the coordinator eventually is connected again.    *)
C10_RetriesForever ==
    /\ [][HandleReconnectErr =>
            /\ IsSome(app'.reconnect_at)
            /\ app'.reconnect_attempts = app.reconnect_attempts + 1]_vars
    /\ \A k \in 1..(MaxFails + 1) :
          (IsSome(app.reconnect_at) /\ app.reconnect_attempts = k)
             ~> (app.reconnect_attempts /= k)
    /\ Disconnected ~> ~Disconnected

C10_Witness ==
    /\ app.reconnect_attempts = MaxFails + 1
    /\ IsSome(app.reconnect_at)
    /\ app.status = St("reconnect failed", 0, "")

----------------------------------------------------------------------------
(* The wire: the writer loop, the backend and the reader loop run on their *)
(* own while the coordinator dispatches and ticks.  A dispatch is two      *)
(* steps of the coordinator's thread, send_request and then                *)
(* pending.insert, and the other loops may run between them; the backend   *)
(* answers requests it has been written, at any moment.                    *)
RefreshSend ==
    /\ co = "idle"
    /\ client
    /\ nuser < MaxUserCalls
    /\ nuser' = nuser + 1
    /\ Commit(send_request(World, "chats.list", Params(None, None, <<>>)))
    /\ co' = "registering"
    /\ UNCHANGED <<shell, wire, reader, events, batch, now, nlines, nconn, last,
                   dropped, first_id, old>>

RefreshRegister ==
    /\ co = "registering"
    /\ app' = [app EXCEPT !.pending = insert(@, returned[Len(returned)], "Chats"),
                          !.status = St("loading chats...", 0, "")]
    /\ co' = "idle"
    /\ UNCHANGED <<shell, COUNTER, returned, handled, client, tx, wire, writer, reader,
                   events, batch, now, nlines, nuser, nconn, last, dropped, first_id, old>>

BackendReply ==
    \E i \in DOMAIN wire : ReadFrame(ResponseLine(wire[i].id, V1), MaxLines)

NextWire ==
    \/ RefreshSend
    \/ RefreshRegister
    \/ WriterStep
    \/ BackendReply
    \/ ReaderExit
    \/ Tick
    \/ DrainEvent
    \/ HandleReconnectIdle
    \/ HandleReconnectDue
    \/ HandleReconnectOk
    \/ HandleReconnectErr
    \/ AdvanceClock

SpecWire == Init /\ [][NextWire]_vars

RECURSIVE ids(_)
ids(queue) == IF queue = <<>> THEN <<>> ELSE <<Head(queue).id>> \o ids(Tail(queue))

(* the identifiers send_request has returned on the current client         *)
Submitted == SubSeq(returned, first_id + 1, Len(returned))

(* C13: the lines the writer loop has written on a connection are, in      *)
(* order, a prefix of the requests submitted on it: nothing is written     *)
(* twice, reordered or invented.                                           *)
C13_WriterFifo ==
    /\ Len(wire) <= Len(Submitted)
    /\ \A i \in DOMAIN wire : wire[i].id = Submitted[i]

C13_Witness == nconn >= 1 /\ Len(wire) >= 2 /\ tx = <<>>

(* the events read and not yet handled, oldest first: what the gui's       *)
(* drain has collected, then what is on the event channel                  *)
InFlight == batch \o events

InFlightNext == batch' \o events'

(* C14: events are handled in the order their frames were read, across     *)
(* ticks: on one connection every step but a drain step keeps the events   *)
(* in flight as they are or adds newer ones behind them, and a drain step  *)
(* handles the oldest one and removes exactly it.                          *)
C14_InOrder ==
    [][IF nconn' /= nconn THEN TRUE
       ELSE IF DrainEvent
       THEN /\ last'.type = Head(InFlight).type
            /\ last'.id = Head(InFlight).id
            /\ last'.code = Head(InFlight).payload.code
            /\ InFlightNext = Tail(InFlight)
       ELSE /\ Len(InFlightNext) >= Len(InFlight)
            /\ SubSeq(InFlightNext, 1, Len(InFlight)) = InFlight]_vars

C14_Witness ==
    /\ shell = "gui" /\ co = "drain"
    /\ batch /= <<>> /\ events /= <<>>
    /\ batch[1].type = "Response" /\ events[1].type = "Response"
    /\ batch[1].id /= events[1].id

(* the request was dispatched on the current client                        *)
OnCurrent(id) == \E k \in (first_id + 1)..Len(returned) : returned[k] = id

(* C18: whatever the interleaving of the writer loop, the backend, the     *)
(* reader loop and the coordinator, a Response handled for a request       *)
(* dispatched on the current client and not resolved before finds its      *)
(* pending entry.                                                          *)
C18_ResponseFindsEntry ==
    [][(DrainEvent /\ Head(Queue).type = "Response"
          /\ OnCurrent(Unwrap(Head(Queue).id))
          /\ Unwrap(Head(Queue).id) \notin Range(handled)) =>
             /\ Unwrap(Head(Queue).id) \in DOMAIN app.pending
             /\ handled' /= handled
             /\ handled'[Len(handled) + 1] = Unwrap(Head(Queue).id)]_vars

(* the reply is on the event channel before the entry is registered        *)
C18_Witness ==
    /\ co = "registering"
    /\ returned[Len(returned)] \notin DOMAIN app.pending
    /\ \E i \in DOMAIN events :
          events[i] = Response(returned[Len(returned)], V1)

(* C15: a line that fails to parse makes the reader loop emit one Closed   *)
(* carrying the parse error, and nothing after it: once the loop has been  *)
(* left that way no event is added on that connection.                     *)
C15_OneClosedOnParseError ==
    [][/\ ReaderRead(InvalidLine) => events' = Append(events, Closed(ParseError))
       /\ (reader = "closing" /\ nconn' = nconn) =>
             Len(InFlightNext) <= Len(InFlight)]_vars

(* C16: when the stream ends while the loop is reading, one Closed with    *)
(* the generic reason is put behind the events of the frames read before,  *)
(* and the loop stops; a loop that has stopped adds no event, and nothing  *)
(* but a Closed ever follows a Closed on a connection.                     *)
C16_ClosedLast ==
    /\ [][/\ (reader = "reading" /\ ReaderExit) =>
               /\ events' = Append(events, Closed(StreamClosed))
               /\ reader' = "done"
          /\ (reader = "done" /\ nconn' = nconn) =>
               /\ reader' = "done"
               /\ Len(InFlightNext) <= Len(InFlight)]_vars
    /\ [](\A i, j \in DOMAIN InFlight :
            (i < j /\ InFlight[i].type = "Closed") => InFlight[j].type = "Closed")

C16_Witness ==
    /\ reader = "done"
    /\ Len(events) = 2
    /\ events[1].type = "Response"
    /\ events[2] = Closed(StreamClosed)

(* a tied Error at the head of the drain whose id is in the pending map    *)
KnownTiedError ==
    /\ co = "drain"
    /\ Queue /= <<>>
    /\ Head(Queue).type = "Error"
    /\ IsSome(Head(Queue).id)
    /\ Unwrap(Head(Queue).id) \in DOMAIN app.pending

(* the compose form, which the tui hands back to the user when a contact   *)
(* search fails                                                            *)
ComposeForm(a) ==
    <<a.contact_suggestions, a.contact_query, a.compose_to, a.input_mode, a.compose_field>>

(* C19: a tied Error removes the pending entry of its own identifier and   *)
(* no other, is routed to that entry's intent (the handler runs for that   *)
(* identifier, and only a failed contact search touches the compose form:  *)
(* nothing but the status changes besides), schedules no reconnect,        *)
(* leaves the attempt counter alone and dispatches nothing.                *)
C19_TiedErrorLocal ==
    [][(KnownTiedError /\ DrainEvent) =>
          /\ app' = [app EXCEPT
                        !.pending = [k \in DOMAIN app.pending \ {Unwrap(Head(Queue).id)}
                                        |-> app.pending[k]],
                        !.status = app'.status,
                        !.contact_suggestions = app'.contact_suggestions,
                        !.contact_query = app'.contact_query,
                        !.compose_to = app'.compose_to,
                        !.input_mode = app'.input_mode,
                        !.compose_field = app'.compose_field]
          /\ (ComposeForm(app') /= ComposeForm(app) =>
                 app.pending[Unwrap(Head(Queue).id)] = "ContactSearch")
          /\ handled' = Append(handled, Unwrap(Head(Queue).id))
          /\ returned' = returned
          /\ COUNTER' = COUNTER
          /\ tx' = tx]_vars

(* a message notification at the head of the drain                         *)
MessageNotification ==
    /\ co = "drain"
    /\ Queue /= <<>>
    /\ Head(Queue).type = "Notification"
    /\ Head(Queue).method = "message"
    /\ IsSome(Head(Queue).payload.message)

(* the conversation whose history is shown                                 *)
ActiveChat == get(app.chats, app.selected)

(* C20: a message notification is appended to the history, once, exactly   *)
(* when it is for the active conversation; and whether appended or not, a  *)
(* resolve-contacts request for its sender is dispatched exactly when the  *)
(* sender is not in the contacts map.                                      *)
C20_NotificationFilter ==
    [][(MessageNotification /\ DrainEvent) =>
          LET message == Unwrap(Head(Queue).payload.message)
          IN  /\ app'.messages =
                    IF IsSome(ActiveChat) /\ Unwrap(ActiveChat).id = message.chat_id
                    THEN Append(app.messages, message)
                    ELSE app.messages
              /\ IF message.sender \notin app.contacts
                 THEN /\ returned' = Append(returned, to_string(COUNTER))
                      /\ app'.pending =
                            (to_string(COUNTER) :> "ResolveContacts") @@ app.pending
                      /\ tx' = Append(tx, Request(to_string(COUNTER), "contacts.resolve",
                                                  Params(None, None, <<message.sender>>)))
                 ELSE /\ returned' = returned
                      /\ app'.pending = app.pending
                      /\ tx' = tx]_vars

C20_Witness ==
    /\ last.type = "Notification" /\ last.code = 7
    /\ IsSome(ActiveChat) /\ Unwrap(ActiveChat).id = 1
    /\ \A i \in DOMAIN app.messages : app.messages[i].chat_id = 1
    /\ tx /= <<>>
    /\ tx[Len(tx)].method = "contacts.resolve"
    /\ tx[Len(tx)].params.handles = << <<98>> >>
    /\ app.pending[tx[Len(tx)].id] = "ResolveContacts"

----------------------------------------------------------------------------
(* The backoff: one connection after another is lost and the transport     *)
(* refuses a long run of reconnect attempts.                               *)
BackoffErr ==
    co = "connecting" /\ app.reconnect_attempts <= MaxBackoffFails /\ EndTick(FALSE)

NextBackoff ==
    \/ ReaderExit
    \/ Tick
    \/ DrainEvent
    \/ HandleReconnectIdle
    \/ HandleReconnectDue
    \/ HandleReconnectOk
    \/ BackoffErr
    \/ AdvanceClock

SpecBackoff == Init /\ [][NextBackoff]_vars

(* the delays the specification lists for attempts 0..10                  *)
DelayTable == <<2, 4, 8, 16, 30, 30, 30, 30, 30, 30, 30>>

(* C11: the delay applied when the attempt counter is n is, for n = 0..10, *)
(* exactly 2, 4, 8, 16, 30, 30, ... seconds; and for every n the delay is  *)
(* at most 30 seconds and not smaller than the delay for n - 1.            *)
C11_DelayTable ==
    /\ [][\A n \in 0..10 :
            (app.reconnect_attempts = n /\ app'.reconnect_attempts = n + 1) =>
               /\ reconnect_delay(n) = DelayTable[n + 1]
               /\ app'.reconnect_at = Some(now + DelayTable[n + 1])]_vars
    /\ [](\A n \in 0..app.reconnect_attempts :
            /\ reconnect_delay(n) <= 30
            /\ n > 0 => reconnect_delay(n - 1) <= reconnect_delay(n))

C11_Witness ==
    /\ app.reconnect_attempts = 11
    /\ co = "idle"
    /\ app.reconnect_at = Some(now + 30)

(* C12: the attempt counter changes only by a scheduling event, which      *)
(* adds one and schedules the attempt reconnect_delay(counter) seconds     *)
(* ahead, and by a successful reconnect, which resets it to 0; and every   *)
(* newly scheduled attempt is such a scheduling event.                     *)
C12_CounterSteps ==
    [][/\ app'.reconnect_attempts /= app.reconnect_attempts =>
             \/ /\ app'.reconnect_attempts = app.reconnect_attempts + 1
                /\ app'.reconnect_at =
                      Some(now + reconnect_delay(app.reconnect_attempts))
                /\ \/ DrainEvent /\ Head(Queue).type = "Closed"
                   \/ BackoffErr
             \/ /\ app'.reconnect_attempts = 0
                /\ HandleReconnectOk
       /\ (IsSome(app'.reconnect_at) /\ app'.reconnect_at /= app.reconnect_at) =>
             app'.reconnect_attempts = app.reconnect_attempts + 1]_vars

C12_Witness ==
    /\ nconn >= 1
    /\ app.reconnect_attempts = 6
    /\ app.status = St("reconnect failed", 0, "")
    /\ app.reconnect_at = Some(now + 30)

----------------------------------------------------------------------------
(* The threads of dropped clients.  They share nothing with the client     *)
(* that replaced them, so their steps are interleaved only in this         *)
(* specification; each is taken eventually once its thread is scheduled.   *)

(* writer_thread of a dropped client: the Sender is gone, so  for line in  *)
(* rx  ends after the lines still queued and the thread returns            *)
OldWriterExit ==
    /\ old.writers > 0
    /\ old' = [old EXCEPT !.writers = @ - 1]
    /\ UNCHANGED <<shell, COUNTER, returned, handled, client, tx, wire, writer, reader,
                   events, app, co, batch, now, nlines, nuser, nconn, last, dropped,
                   first_id>>

(* faulty variant: the event channel outlives the client, so the trailing  *)
(* Closed of a dropped client's reader reaches the coordinator             *)
OldReaderExit_shared_channel ==
    /\ old.readers > 0
    /\ old' = [old EXCEPT !.readers = @ - 1]
    /\ events' = events \o reader_exit
    /\ UNCHANGED <<shell, COUNTER, returned, handled, client, tx, wire, writer, reader,
                   app, co, batch, now, nlines, nuser, nconn, last, dropped,
                   first_id>>

(* reader_thread of a dropped client, past its loop: the trailing send     *)
(* finds no Receiver, the result is ignored and the thread returns         *)
OldReaderExit ==
    /\ old.readers > 0
    /\ old' = [old EXCEPT !.readers = @ - 1]
    /\ UNCHANGED <<shell, COUNTER, returned, handled, client, tx, wire, writer, reader,
                   events, app, co, batch, now, nlines, nuser, nconn, last, dropped,
                   first_id>>

NextLoops ==
    \/ RefreshChats
    \/ ReaderGarbage
    \/ ReaderExit
    \/ Tick
    \/ DrainEvent
    \/ HandleReconnectIdle
    \/ HandleReconnectDue
    \/ HandleReconnectOk
    \/ HandleReconnectErr
    \/ AdvanceClock
    \/ OldWriterExit
    \/ OldReaderExit

SpecLoops ==
    /\ Init /\ [][NextLoops]_vars
    /\ WF_vars(Tick)
    /\ WF_vars(DrainEvent)
    /\ WF_vars(HandleReconnectIdle \/ HandleReconnectDue \/ HandleReconnectOk
                  \/ HandleReconnectErr)
    /\ WF_vars(AdvanceClock)
    /\ WF_vars(OldWriterExit)
    /\ WF_vars(OldReaderExit)

(* the loops of the current client that run                                *)
LiveLoops ==
    (IF writer = "running" THEN 1 ELSE 0) + (IF reader \in {"reading", "failing", "closing"} THEN 1 ELSE 0)

(* the loops of dropped clients that run                                   *)
OldLoops == old.writers + old.readers + old.reading

(* C17: a client has one writer loop and one reader loop; a client is      *)
(* dropped only after its reader has left its loop, so no reader of a      *)
(* dropped client is left waiting on its stream; replacing a client adds   *)
(* at most its own two threads to those still running and starts one       *)
(* writer and one reader for the new client; every thread of a dropped     *)
(* client eventually returns, so that again and again no more than the     *)
(* two loops of the live client run.                                       *)
C17_LoopsEnd ==
    /\ [](old.reading = 0 /\ LiveLoops <= 2)
    /\ [][nconn' /= nconn =>
            /\ writer' = "running" /\ reader' = "reading"
            /\ old'.writers <= old.writers + 1
            /\ old'.readers <= old.readers + 1]_vars
    /\ (OldLoops > 0) ~> (OldLoops = 0)
    /\ []<>(LiveLoops + OldLoops <= 2)

C17_Witness ==
    /\ nconn >= 1
    /\ old.writers >= 1
    /\ old.readers >= 1

----------------------------------------------------------------------------
(* The watch and the backend's side of it.  The backend reads the lines    *)
(* the writer loop wrote, in order: a watch.subscribe creates a            *)
(* subscription and is answered with its token (here the request's own     *)
(* identifier), a watch.unsubscribe ends the subscription it names, a      *)
(* chats.list is answered with the chats.                                  *)
backend_result(req) ==
    IF req.method = "watch.subscribe" THEN Json(None, None, Some(req.id), None, None, 0)
    ELSE IF req.method = "watch.unsubscribe" THEN V0
    ELSE V1

SubsReply ==
    \E i \in DOMAIN wire : ReadFrame(ResponseLine(wire[i].id, backend_result(wire[i])), MaxWatchLines)

NextSubs ==
    \/ WatchToggle
    \/ WriterStep
    \/ SubsReply
    \/ WatchExit
    \/ Tick
    \/ DrainEvent
    \/ HandleReconnectIdle
    \/ HandleReconnectDue
    \/ HandleReconnectOk
    \/ HandleReconnectErr
    \/ AdvanceClock

SpecSubs == Init /\ [][NextSubs]_vars

(* the subscriptions the backend holds on the current connection: those    *)
(* created by a watch.subscribe it has read and not named by a             *)
(* watch.unsubscribe it has read                                           *)
BackendSubs ==
    {wire[i].id : i \in {k \in DOMAIN wire : wire[k].method = "watch.subscribe"}}
    \ {Unwrap(wire[j].params.subscription) :
          j \in {k \in DOMAIN wire : wire[k].method = "watch.unsubscribe"}}

(* nothing of the watch is under way: no watch request is pending, queued  *)
(* or answered but not yet handled, and the connection is up               *)
WatchQuiet ==
    /\ co = "idle"
    /\ reader = "reading"
    /\ writer = "running"
    /\ tx = <<>>
    /\ InFlight = <<>>
    /\ \A id \in DOMAIN app.pending :
          app.pending[id] \notin {"WatchSubscribe", "WatchUnsubscribe"}

(* C21: the backend holds at most one subscription of this coordinator on  *)
(* the current connection, and once nothing of the watch is under way it   *)
(* is the one whose token watch_subscription stores.                       *)
C21_OneSubscription ==
    /\ Cardinality(BackendSubs) <= 1
    /\ WatchQuiet =>
          BackendSubs = (IF IsSome(app.watch_subscription)
                         THEN {Unwrap(app.watch_subscription)} ELSE {})

----------------------------------------------------------------------------
(* a Response or tied Error at the head of the drain                       *)
ReplyAtHead ==
    /\ co = "drain"
    /\ Queue /= <<>>
    /\ Head(Queue).type \in {"Response", "Error"}
    /\ IsSome(Head(Queue).id)

(* C22: a Response or tied Error whose identifier is pending removes the   *)
(* entry and invokes the intent handler for that identifier; one whose     *)
(* identifier is not pending (any more) invokes no handler; so no          *)
(* identifier is handled twice.                                            *)
C22_ResolvedOnce ==
    /\ [][(ReplyAtHead /\ DrainEvent) =>
            LET id == Unwrap(Head(Queue).id)
            IN  IF id \in DOMAIN app.pending
                THEN /\ id \notin DOMAIN app'.pending
                     /\ handled' = Append(handled, id)
                ELSE handled' = handled]_vars
    /\ [](\A i, j \in DOMAIN handled : i /= j => handled[i] /= handled[j])

----------------------------------------------------------------------------
(* The wire under the scheduling the code has: the writer thread and the   *)
(* coordinator's loop keep running, a dispatch runs to its end, time       *)
(* passes, the backend answers every request it has read while it has      *)
(* lines left, and a transport that is tried again and again accepts in    *)
(* the end.  When the stream ends is the peer's choice: nothing in         *)
(* writer_thread tells the reader, or the coordinator, that a write        *)
(* failed.                                                                 *)
BackendReplyTo(i) ==
    /\ i \in DOMAIN wire
    /\ ReadFrame(ResponseLine(wire[i].id, V1), MaxLines)

FairWire ==
    /\ SpecWire
    /\ WF_vars(WriterStep)
    /\ WF_vars(RefreshRegister)
    /\ WF_vars(Tick)
    /\ WF_vars(DrainEvent)
    /\ WF_vars(HandleReconnectIdle \/ HandleReconnectDue \/ HandleReconnectOk
                  \/ HandleReconnectErr)
    /\ WF_vars(AdvanceClock)
    /\ SF_vars(HandleReconnectOk)
    /\ \A i \in 1..MaxWire : WF_vars(BackendReplyTo(i))

(* C23: once the writer loop has stopped on a failed write, the            *)
(* coordinator eventually has a reconnect scheduled (the reader having     *)
(* emitted Closed) or already runs on a new client.                        *)
C23_DeadWriterCloses == (writer = "stopped") ~> (IsSome(app.reconnect_at) \/ writer = "running")

(* C24: every pending entry is eventually removed, by its reply or by the  *)
(* clear of a reconnect, as long as the backend has lines left to send.    *)
C24_PendingDrains ==
    \A k \in 0..MaxIds :
        (to_string(k) \in DOMAIN app.pending)
           ~> (to_string(k) \notin DOMAIN app.pending \/ nlines >= MaxLines)

----------------------------------------------------------------------------
(* C25: a reconnect attempt is scheduled exactly while the connection is   *)
(* down, that is from the drain of the first Closed of the current client  *)
(* until a connect succeeds; reconnect_at is set from None only by the     *)
(* drain of a Closed and cleared only by a successful connect; and the     *)
(* client is replaced only with an attempt scheduled and due.              *)
C25_StateMachine ==
    /\ [](IsSome(app.reconnect_at) <=> Disconnected)
    /\ [][/\ (~IsSome(app.reconnect_at) /\ IsSome(app'.reconnect_at)) =>
               (co = "drain" /\ Queue /= <<>> /\ Head(Queue).type = "Closed")
          /\ (IsSome(app.reconnect_at) /\ ~IsSome(app'.reconnect_at)) =>
               nconn' = nconn + 1
          /\ nconn' /= nconn =>
               /\ IsSome(app.reconnect_at)
               /\ now >= Unwrap(app.reconnect_at)
               /\ Disconnected
               /\ app'.reconnect_at = None]_vars

C25_Witness ==
    /\ nconn >= 1
    /\ Disconnected
    /\ IsSome(app.reconnect_at)
    /\ app.reconnect_attempts = 1

(* C26: handle_reconnect runs only after the drain of the same tick: the   *)
(* drain is left, for handle_reconnect, with nothing left of what it had   *)
(* to apply (the gui's collected batch is empty, the tui's channel is      *)
(* empty), and the client is replaced or the attempt rescheduled only by   *)
(* a handle_reconnect entered so.                                          *)
C26_DrainBeforeReconnect ==
    [][/\ (co = "drain" /\ co' \in {"idle", "connecting"}) =>
             /\ batch = <<>>
             /\ shell = "tui" => events = <<>>
       /\ co' = "connecting" => co \in {"drain", "connecting"}
       /\ (nconn' /= nconn
              \/ (app'.reconnect_attempts > app.reconnect_attempts
                    /\ IsSome(app.reconnect_at))) =>
             co = "connecting"]_vars

C26_Witness ==
    /\ co = "connecting"
    /\ batch = <<>>
    /\ last.type = "Closed"
    /\ Due

----------------------------------------------------------------------------
(* The drain with the reader and the writer running beside it: a line may *)
(* be read and its event queued, and a request dispatched by the drain may *)
(* be written, while the coordinator is in the middle of a drain.          *)
(* The loop of handle_rpc_events / drain_events and the handle_reconnect   *)
(* that follows it are straight-line code of the coordinator's thread, so  *)
(* a drain that can take a step takes it.  When Notification::show()       *)
(* returns is for the notification service to decide: the call is made     *)
(* without a timeout, and nothing obliges the service to answer.           *)
DrainArrival == ReadFrame(NotificationLine("message", V2), MaxLines)

NextDrain ==
    \/ DrainArrival
    \/ WriterStep
    \/ ReaderGarbage
    \/ ReaderExit
    \/ Tick
    \/ DrainEvent
    \/ NotificationShow
    \/ HandleReconnectIdle
    \/ HandleReconnectDue
    \/ HandleReconnectOk
    \/ HandleReconnectErr
    \/ AdvanceClock

SpecDrain ==
    /\ Init /\ [][NextDrain]_vars
    /\ WF_vars(DrainEvent)
    /\ WF_vars(HandleReconnectIdle \/ HandleReconnectDue \/ HandleReconnectOk
                  \/ HandleReconnectErr)

(* C27: a drain that has started ends; while it runs the coordinator      *)
(* never waits: some step of its own is possible whatever the reader does  *)
(* or has done (an event to apply, or the end of the tick); a step of the  *)
(* drain applies the oldest buffered event and nothing else, and the gui   *)
(* applies no event that was not buffered when the drain began.            *)
C27_DrainTerminates ==
    /\ (co \in {"drain", "show"}) ~> (co \in {"idle", "connecting"})
    /\ [](co \in {"drain", "show"} =>
             ENABLED (DrainEvent \/ HandleReconnectIdle \/ HandleReconnectDue))
    /\ [][(co \in {"drain", "show"} /\ co' \in {"drain", "show"}) =>
            /\ last' /= last => (Queue /= <<>> /\ InFlightNext = Tail(InFlight))
            /\ Len(batch') <= Len(batch)]_vars

----------------------------------------------------------------------------
(* C28: a successful reconnect leaves in the pending map the chats.list    *)
(* it dispatches, the watch.subscribe it dispatches when a watched chat    *)
(* is recorded, and nothing else, both queued on the new client; it        *)
(* clears watch_subscription, which on a connection stays None until a     *)
(* Response to a pending WatchSubscribe is handled.                        *)
C28_BootstrapOnly ==
    [][/\ HandleReconnectOk =>
            /\ app'.pending =
                  IF IsSome(app.watch_chat_id)
                  THEN (to_string(COUNTER) :> "Chats")
                         @@ (to_string(COUNTER + 1) :> "WatchSubscribe")
                  ELSE (to_string(COUNTER) :> "Chats")
            /\ DOMAIN app'.pending = {tx'[i].id : i \in DOMAIN tx'}
            /\ \A i \in DOMAIN tx' :
                  tx'[i].method = IF app'.pending[tx'[i].id] = "Chats"
                                  THEN "chats.list" ELSE "watch.subscribe"
            /\ app'.watch_subscription = None
       /\ (~IsSome(app.watch_subscription) /\ IsSome(app'.watch_subscription)) =>
            /\ co = "drain" /\ Queue /= <<>>
            /\ Head(Queue).type = "Response"
            /\ Unwrap(Head(Queue).id) \in DOMAIN app.pending
            /\ app.pending[Unwrap(Head(Queue).id)] = "WatchSubscribe"
            /\ OnCurrent(Unwrap(Head(Queue).id))]_vars

C28_Witness ==
    /\ nconn >= 1
    /\ co = "idle"
    /\ first_id = Len(returned) - 2
    /\ IsSome(dropped) /\ IsSome(Unwrap(dropped).sub)
    /\ app.watch_subscription = None
    /\ IsSome(app.watch_chat_id)
    /\ DOMAIN app.pending = {returned[Len(returned) - 1], returned[Len(returned)]}
    /\ app.pending[returned[Len(returned)]] = "WatchSubscribe"

----------------------------------------------------------------------------
(* The reconnection policy of the gui shell, from its own source.          *)

(* faulty variant: the delay grows by two seconds per attempt              *)
gui_reconnect_delay_linear(attempt) == Min(2 * (attempt + 1), 30)

(* gui fn reconnect_delay(attempt), in seconds                             *)
gui_reconnect_delay(attempt) == Min(2 * Pow2(Min(attempt, 4)), 30)

(* App::schedule_reconnect                                                 *)
gui_schedule_reconnect(a, t) ==
    IF IsSome(a.reconnect_at) THEN a
    ELSE LET delay == gui_reconnect_delay(a.reconnect_attempts)
         IN  [a EXCEPT !.reconnect_attempts = @ + 1,
                       !.reconnect_at = Some(t + delay)]

(* App::handle_rpc_event, the Closed arm                                   *)
gui_handle_closed(w, message, t) ==
    [w EXCEPT !.app = gui_schedule_reconnect(
                          [w.app EXCEPT !.status = St("rpc closed", 0, message)], t)]

(* App::handle_reconnect; ok is the outcome of connect_from_config         *)
gui_handle_reconnect(w, t, ok) ==
    IF w.app.reconnect_at = None THEN w
    ELSE IF t < Unwrap(w.app.reconnect_at) THEN w
    ELSE IF ok
    THEN LET c == [w EXCEPT !.client = TRUE, !.fresh = TRUE, !.tx = <<>>,
                            !.writer = "running",
                            !.app.reconnect_at = None,
                            !.app.reconnect_attempts = 0,
                            !.app.watch_subscription = None,
                            !.app.pending = <<>>,
                            !.app.status = St("reconnected", 0, "")]
             r == request_chats(c)
         IN  IF IsSome(r.app.watch_chat_id)
             THEN request_watch_subscribe(r, Unwrap(r.app.watch_chat_id)) ELSE r
    ELSE [w EXCEPT !.app = gui_schedule_reconnect(
                               [w.app EXCEPT !.status = St("reconnect failed", 0, ""),
                                             !.reconnect_at = None], t)]

(* the reconnect state: the scheduled time and the attempt counter         *)
ReconnectState(w) == <<w.app.reconnect_at, w.app.reconnect_attempts>>

(* C29: from any state either shell reaches, the tui's and the gui's       *)
(* handlers leave the same reconnect state, for a Closed event and for     *)
(* the reconnect check of a tick with either connect outcome, and they     *)
(* choose the same delay for every attempt count so far; the shells        *)
(* therefore stay in step on the same inputs.                              *)
C29_SamePolicy ==
    /\ \A message \in {ParseError, StreamClosed} :
          ReconnectState(handle_closed(World, message, now))
            = ReconnectState(gui_handle_closed(World, message, now))
    /\ \A ok \in BOOLEAN :
          ReconnectState(handle_reconnect(World, now, ok))
            = ReconnectState(gui_handle_reconnect(World, now, ok))
    /\ \A n \in 0..app.reconnect_attempts : reconnect_delay(n) = gui_reconnect_delay(n)

C29_Witness ==
    /\ shell = "gui"
    /\ co = "idle"
    /\ app.reconnect_attempts = 5
    /\ app.reconnect_at = Some(now + 30)

(* C30: between ticks a reconnect attempt is scheduled exactly when the    *)
(* attempt counter is above 0.                                             *)
C30_ScheduledIffCounted ==
    co = "idle" => (app.reconnect_at = None <=> app.reconnect_attempts = 0)

C30_Witness ==
    /\ co = "idle"
    /\ nconn >= 1
    /\ app.reconnect_at = None
    /\ app.reconnect_attempts = 0
    /\ app.status = St("loading chats...", 0, "")

----------------------------------------------------------------------------
(* Closed events met while an attempt is scheduled.                        *)

(* the drain handles a Closed event in this step                           *)
ClosedDrain ==
    /\ co = "drain"
    /\ Queue /= <<>>
    /\ Head(Queue).type = "Closed"
    /\ Queue' = Tail(Queue)

(* C31: scheduling is idempotent.  A Closed event handled while a          *)
(* reconnect attempt is scheduled leaves the scheduled time and the        *)
(* attempt counter as they are; the first Closed event of a connection,    *)
(* handled with nothing scheduled, schedules the attempt reconnect_delay   *)
(* from now and advances the counter by one.  So the Closed events of one  *)
(* connection advance the backoff by exactly one step.                     *)
C31_SchedulingIdempotent ==
    [][ClosedDrain =>
          IF IsSome(app.reconnect_at) \/ Disconnected
          THEN /\ app'.reconnect_at = app.reconnect_at
               /\ app'.reconnect_attempts = app.reconnect_attempts
          ELSE /\ app'.reconnect_at = Some(now + reconnect_delay(app.reconnect_attempts))
               /\ app'.reconnect_attempts = app.reconnect_attempts + 1]_vars

(* a Closed event has been handled at a time when the attempt scheduled    *)
(* by an earlier one was already due                                       *)
C31_Witness ==
    /\ last.type = "Closed"
    /\ IsSome(app.reconnect_at)
    /\ now >= Unwrap(app.reconnect_at)
    /\ app.reconnect_attempts = 1

----------------------------------------------------------------------------
(* The events of a replaced connection.                                    *)

RECURSIVE HasClosed(_)
HasClosed(queue) ==
    IF queue = <<>> THEN FALSE
    ELSE Head(queue).type = "Closed" \/ HasClosed(Tail(queue))

(* C32: no event of a replaced connection is processed.  The channel goes  *)
(* with the client: at a successful reconnect nothing is left queued;      *)
(* afterwards the queue grows only by a step of the new client's reader;   *)
(* a thread of a dropped client that runs on changes neither the queue     *)
(* nor the coordinator's state; so while the current reader is in its      *)
(* loop no Closed is queued and no reconnect attempt is scheduled,         *)
(* whatever the reader of the replaced connection still sends.             *)
C32_OldEventsUnseen ==
    /\ [][nconn' /= nconn => events' = <<>> /\ batch' = <<>>]_vars
    /\ [][Len(events') > Len(events) => reader' /= reader \/ nlines' > nlines]_vars
    /\ [][(old' /= old /\ nconn' = nconn) =>
            app' = app /\ events' = events /\ batch' = batch]_vars
    /\ []((client /\ reader = "reading") =>
            /\ app.reconnect_at = None
            /\ ~HasClosed(events \o batch))

(* a client has been replaced while its reader had left the loop with its  *)
(* trailing Closed still to send, and the new client has requests pending  *)
C32_Witness ==
    /\ nconn >= 1
    /\ old.readers >= 1
    /\ client /\ reader = "reading"
    /\ app.pending /= <<>>

----------------------------------------------------------------------------
(* The watch when the backend refuses the subscribe request: SpecWatch     *)
(* with tied Errors among the replies.                                     *)

WatchError == \E id \in DOMAIN app.pending : ReadFrame(TiedErrorLine(id, V2), MaxWatchLines)

NextResub ==
    \/ WatchToggle
    \/ WatchReply
    \/ WatchError
    \/ WatchExit
    \/ Tick
    \/ DrainEvent
    \/ HandleReconnectIdle
    \/ HandleReconnectDue
    \/ HandleReconnectOk
    \/ HandleReconnectErr
    \/ AdvanceClock

SpecResub == Init /\ [][NextResub]_vars

(* C33: a successful reconnect dispatches a subscribe call only if a       *)
(* token was held, or a subscribe request was awaiting its reply, when     *)
(* the connection dropped.                                                 *)
C33_ResubscribeOnlyIfActive ==
    [][(nconn' /= nconn /\ Subscribes(tx') /= {}) =>
          /\ IsSome(dropped)
          /\ IsSome(Unwrap(dropped).sub) \/ Unwrap(dropped).subscribing]_vars

(* C34: whenever a subscription token is held the watched conversation    *)
(* is recorded too.                                                        *)
C34_TokenHasChat ==
    IsSome(app.watch_subscription) => IsSome(app.watch_chat_id)

----------------------------------------------------------------------------
(* Attachment fetches (gui).  The backend announces a message with an      *)
(* image that is not on this machine, one that is, and a text file; it     *)
(* answers what is pending with the data or with a tied Error, or ends     *)
(* the stream, and the coordinator reconnects.                             *)

MaxAttachLines == 3

AttRemote == Attachment(File("/remote/a", None), File("a", Some("png")),
                        [type |-> "image", sub |-> "png"])
AttLocal == Attachment(File("/local/c", Some("png")), File("c", None),
                       [type |-> "", sub |-> ""])
AttText == Attachment(File("/remote/t", None), File("t", Some("txt")),
                      [type |-> "text", sub |-> "plain"])
(* a picture whose file name ends in a dot: its extension is the empty one *)
AttDot == Attachment(File("/remote/d", Some("png")), File("d", Some("")),
                     [type |-> "", sub |-> ""])
(* an image by its MIME type whose file name ends in a dot                 *)
AttBare == Attachment(File("/remote/q", None), File("q", Some("")),
                      [type |-> "image", sub |-> "png"])
MsgA ==
    [Msg(1, <<>>) EXCEPT !.attachments = <<AttText, AttDot, AttLocal, AttRemote, AttBare>>]

VA == Json(None, Some(<<MsgA>>), None, None, Some(MsgA), 0)
VD == [V0 EXCEPT !.data = Some(JStr("aGk="))]
VBad == [V0 EXCEPT !.data = Some(JStr("!!notbase64!!"))]

AttachNotify == ReadFrame(NotificationLine("message", VA), MaxAttachLines)

AttachReply ==
    \E id \in DOMAIN app.pending, v \in {VA, VD, VBad} : ReadFrame(ResponseLine(id, v), MaxAttachLines)

AttachError == \E id \in DOMAIN app.pending : ReadFrame(TiedErrorLine(id, V2), MaxAttachLines)

NextAttach ==
    \/ AttachNotify
    \/ AttachReply
    \/ AttachError
    \/ Exit(MaxAttachLines)
    \/ Tick
    \/ DrainEvent
    \/ NotificationShow
    \/ HandleReconnectIdle
    \/ HandleReconnectDue
    \/ HandleReconnectOk
    \/ HandleReconnectErr
    \/ AdvanceClock

SpecAttach == Init /\ [][NextAttach]_vars

(* C35: every entry of pending_attachments has a matching entry in the     *)
(* pending map.                                                            *)
C35_AttachmentsPending ==
    DOMAIN app.pending_attachments \subseteq DOMAIN app.pending

----------------------------------------------------------------------------
(* The message history: the user moves the selection and loads             *)
(* histories, the backend answers what is pending and announces messages   *)
(* of either chat.                                                         *)

MaxHistLines == 3
MaxHistCalls == 1

HistReply ==
    \E id \in DOMAIN app.pending, v \in {V1, V2} : ReadFrame(ResponseLine(id, v), MaxHistLines)

HistNotify == \E v \in {V1, V2} : ReadFrame(NotificationLine("message", v), MaxHistLines)

NextHist ==
    \/ Select(MaxHistCalls)
    \/ Load(MaxHistCalls)
    \/ HistReply
    \/ HistNotify
    \/ Tick
    \/ DrainEvent
    \/ NotificationShow
    \/ HandleReconnectIdle

SpecHist == Init /\ [][NextHist]_vars

(* C36: the visible message history holds messages of a single             *)
(* conversation: all entries of the messages list share one chat_id.       *)
C36_SingleConversation ==
    \A i, j \in DOMAIN app.messages : app.messages[i].chat_id = app.messages[j].chat_id

----------------------------------------------------------------------------
(* A stream whose reads fail.  BufReader::lines yields Err for a read      *)
(* that fails, and yields it again on the next call while the error        *)
(* lasts; reader = "failing" is the reader in its loop on such a stream.   *)
(* A later read may succeed (ReadFrame) or find the stream ended (Exit).   *)

(* one iteration of the loop on an item that is Err                        *)
IoRead ==
    /\ events' = events \o reader_line(IoErrLine).emit
    /\ reader' = IF reader_line(IoErrLine).stop THEN "closing" ELSE "failing"

(* the stream starts to fail                                               *)
ReaderIoFail ==
    /\ reader = "reading"
    /\ nlines < MaxLines
    /\ nlines' = nlines + 1
    /\ IoRead
    /\ UNCHANGED <<shell, COUNTER, returned, handled, client, tx, wire, writer, app, co,
                   batch, now, nuser, nconn, last, dropped, first_id, old>>

(* the next read of the failing stream                                     *)
ReaderIoRetry ==
    /\ reader = "failing"
    /\ IoRead
    /\ UNCHANGED <<shell, COUNTER, returned, handled, client, tx, wire, writer, app, co,
                   batch, now, nlines, nuser, nconn, last, dropped, first_id, old>>

NextIo ==
    \/ RefreshChats
    \/ ReaderIoFail
    \/ ReaderIoRetry
    \/ ReaderGarbage
    \/ ReaderExit
    \/ Tick
    \/ DrainEvent
    \/ HandleReconnectIdle
    \/ HandleReconnectDue
    \/ HandleReconnectOk
    \/ HandleReconnectErr
    \/ AdvanceClock

(* the reader thread and the coordinator's loop are scheduled again and    *)
(* again                                                                   *)
SpecIo ==
    /\ Init /\ [][NextIo]_vars
    /\ WF_vars(ReaderIoRetry)
    /\ WF_vars(Tick)
    /\ WF_vars(DrainEvent)
    /\ WF_vars(HandleReconnectIdle \/ HandleReconnectDue \/ HandleReconnectOk
                  \/ HandleReconnectErr)
    /\ WF_vars(AdvanceClock)

(* C37: a reader whose reads return I/O errors, on and on, eventually      *)
(* sends Closed and stops.                                                 *)
C37_IoErrorCloses == (reader = "failing") ~> (reader = "done")

----------------------------------------------------------------------------
(* C38: in the gui, when the first connection attempt fails no client is   *)
(* held; every dispatch is then a no-op (no identifier is allocated,       *)
(* nothing is sent, the pending map stays empty), no event and so no       *)
(* Closed is ever handled, no reconnect attempt is scheduled or made, and  *)
(* the coordinator stays without a client for the rest of the run.         *)
C38_StaysDisconnected ==
    /\ [](~client =>
            /\ shell = "gui"
            /\ COUNTER = 0 /\ returned = <<>> /\ tx = <<>>
            /\ app.pending = <<>>
            /\ events = <<>> /\ batch = <<>> /\ last.type = "None"
            /\ app.reconnect_at = None /\ app.reconnect_attempts = 0
            /\ nconn = 0)
    /\ [][~client => ~client']_vars

(* without a client the user has filled in the compose form and pressed   *)
(* Send, and a tick is on                                                  *)
C38_Witness ==
    /\ ~client
    /\ app.status = St("sent", 0, "")
    /\ co = "drain"

----------------------------------------------------------------------------
(* Composing, reacting and opening links: the user types or presses the    *)
(* buttons of the view, the backend answers what is pending with a result  *)
(* or with a tied Error.                                                   *)

MaxKeys == 3
MaxKeyLines == 1

MsgK == [Msg(1, <<97>>) EXCEPT !.guid = "g", !.text = <<[url |-> TRUE, s |-> "u"]>>]
Match(name, handles) ==
    [name |-> Some(JStr(name)), handles |-> Some([i \in DOMAIN handles |-> JStr(handles[i])])]
VK == [V1 EXCEPT !.messages = Some(<<MsgK>>),
                 !.matches = Some(<<Match(<<98, 111, 98>>, << <<43, 49>> >>)>>)]
VM == [V0 EXCEPT !.matches = Some(<<Match(<<>>, << <<53>>, <<54>> >>)>>)]

KeysReply ==
    \E id \in DOMAIN app.pending, v \in {VK, VM} : ReadFrame(ResponseLine(id, v), MaxKeyLines)

KeysError == \E id \in DOMAIN app.pending : ReadFrame(TiedErrorLine(id, V2), MaxKeyLines)

NextKeys ==
    \/ KeyPress(MaxKeys)
    \/ Update(MaxKeys)
    \/ KeysReply
    \/ KeysError
    \/ Tick
    \/ DrainEvent
    \/ HandleReconnectIdle

SpecKeys == Init /\ [][NextKeys]_vars

====
